---- MODULE Spec2Model ----
(***************************************************************************)
(* A model of src/src/main.py of masking_program: the PEM formatter        *)
(* (format_rsa_key), the key store (generate / import / retrieve), the     *)
(* chunked RSA-OAEP text cipher, the Fernet and the RSA file cipher, the   *)
(* JSON store file (open_file / write_file) and the store of encrypted     *)
(* values kept in it.                                                      *)
(*                                                                         *)
(* Python str values are sequences of one-character strings, Python bytes  *)
(* values are sequences of integers 0..255.  A value that may be None is a *)
(* record [none, val].  A file is a record [exists, data].                 *)
(***************************************************************************)
EXTENDS Integers, Sequences, FiniteSets, TLC

VARIABLES
    fmt,        \* SpecFormat: the arguments of format_rsa_key and what its calls returned
    keyfiles,   \* the PEM files of the keys directory and of the working directory
    files,      \* the binary files the file ciphers read and write
    generated,  \* how many keys (RSA pairs, Fernet keys) have been generated so far
    call        \* the last call of a function of main.py: its arguments and result

vars == <<fmt, keyfiles, files, generated, call>>

(***************************************************************************)
(* Python values                                                           *)
(***************************************************************************)
None == [none |-> TRUE, val |-> <<>>]

Some(v) == [none |-> FALSE, val |-> v]

Min(S) == CHOOSE x \in S : \A y \in S : x <= y

\* the sequence f with its elements computed once
Tuple(f) == f \o <<>>

\* a local variable: F of the value v, which is computed once
With(v, F(_)) == F(v)

\* s[from:] of Python, 1-based: the elements from index i on
Tail_from(s, i) == IF i > Len(s) THEN <<>> ELSE SubSeq(s, i, Len(s))

\* s[:n] of Python: the first n elements, clipped to the length
Prefix(s, n) == IF n >= Len(s) THEN s ELSE SubSeq(s, 1, n)

\* needle in haystack (bytes or str)
Contains(hay, needle) ==
    \E i \in 1..(Len(hay) - Len(needle) + 1) :
        SubSeq(hay, i, i + Len(needle) - 1) = needle

\* str.replace(lit, ""): the leftmost occurrence is cut out and the search
\* resumes after it, so occurrences are removed left to right in one pass
RECURSIVE Remove(_, _)
Remove(s, lit) ==
    LET L == Len(lit)
        hits == {i \in 1..(Len(s) - L + 1) :
                    s[i] = lit[1] /\ SubSeq(s, i, i + L - 1) = lit}
    IN IF hits = {} THEN s
       ELSE LET i == Min(hits)
            IN SubSeq(s, 1, i - 1) \o Remove(Tail_from(s, i + L), lit)

Whitespace == {" ", "\n", "\t", "\r"}

IsSpace(c) == c \in Whitespace

NotSpace(c) == ~IsSpace(c)

\* only the line breaks taken out
StripAllWhitespace_newlines_only(s) == SelectSeq(s, LAMBDA c : c # "\n")

\* "".join(content.split())
StripAllWhitespace(s) == SelectSeq(s, NotSpace)

(***************************************************************************)
(* base64 (the standard library's base64.b64encode / b64decode)            *)
(***************************************************************************)
B64Alphabet ==
    <<"A", "B", "C", "D", "E", "F", "G", "H", "I", "J", "K", "L", "M", "N", "O",
    "P", "Q", "R", "S", "T", "U", "V", "W", "X", "Y", "Z", "a", "b", "c", "d",
    "e", "f", "g", "h", "i", "j", "k", "l", "m", "n", "o", "p", "q", "r", "s",
    "t", "u", "v", "w", "x", "y", "z", "0", "1", "2", "3", "4", "5", "6", "7",
    "8", "9", "+", "/">>

B64Chars == {B64Alphabet[i] : i \in 1..64}

B64Value == [c \in B64Chars |-> (CHOOSE i \in 1..64 : B64Alphabet[i] = c) - 1]

B64Pad == "="

\* characters that are not ASCII (b64decode of a str rejects them)
NonAscii == {"e_acute", "euro"}

IsB64Data(c) == c \in B64Chars

IsB64Significant(c) == c \in B64Chars \/ c = B64Pad

\* base64.b64encode(b).decode(): 4 characters per 3 bytes, "=" padded
b64encode(b) ==
    LET n == Len(b)
        byte(j) == IF j <= n THEN b[j] ELSE 0
        ch(p) ==
            LET g == (p - 1) \div 4
                r == (p - 1) % 4
                b1 == byte(3 * g + 1)
                b2 == byte(3 * g + 2)
                b3 == byte(3 * g + 3)
            IN CASE r = 0 -> B64Alphabet[(b1 \div 4) + 1]
                 [] r = 1 -> B64Alphabet[(b1 % 4) * 16 + (b2 \div 16) + 1]
                 [] r = 2 -> IF 3 * g + 2 > n THEN B64Pad
                             ELSE B64Alphabet[(b2 % 16) * 4 + (b3 \div 64) + 1]
                 [] r = 3 -> IF 3 * g + 3 > n THEN B64Pad
                             ELSE B64Alphabet[(b3 % 64) + 1]
    IN Tuple([p \in 1..(4 * ((n + 2) \div 3)) |-> ch(p)])

\* base64.b64decode(s) with validate=False (binascii.a2b_base64, non-strict):
\* characters outside the alphabet are skipped; a "=" counts only once two or
\* more characters of the current quad have been read, and the pad that
\* completes the quad ends the decoding (what follows is ignored); input that
\* ends inside a quad is an error; a non-ASCII str is an error.
\* The result is [ok, bytes].
b64decode(s) ==
    LET f == SelectSeq(s, IsB64Significant)
        n == Len(f)
        dataBefore(i) == Cardinality({j \in 1..(i - 1) : f[j] # B64Pad})
        lastData(i) ==
            LET D == {j \in 1..(i - 1) : f[j] # B64Pad}
            IN IF D = {} THEN 0 ELSE CHOOSE j \in D : \A k \in D : k <= j
        stops == {i \in 1..n :
                    /\ f[i] = B64Pad
                    /\ dataBefore(i) % 4 >= 2
                    /\ (dataBefore(i) % 4) + (i - lastData(i)) >= 4}
        upto == IF stops = {} THEN n ELSE Min(stops)
        d == SelectSeq(Prefix(f, upto), IsB64Data)
        v(j) == B64Value[d[j]]
        byte(k) ==
            LET g == (k - 1) \div 3
                r == (k - 1) % 3
            IN CASE r = 0 -> v(4 * g + 1) * 4 + (v(4 * g + 2) \div 16)
                 [] r = 1 -> (v(4 * g + 2) % 16) * 16 + (v(4 * g + 3) \div 4)
                 [] r = 2 -> (v(4 * g + 3) % 4) * 64 + v(4 * g + 4)
    IN IF \E i \in 1..Len(s) : s[i] \in NonAscii
         THEN [ok |-> FALSE, bytes |-> <<>>]
       ELSE IF stops = {} /\ Len(d) % 4 # 0
         THEN [ok |-> FALSE, bytes |-> <<>>]
       ELSE [ok |-> TRUE, bytes |-> Tuple([k \in 1..((Len(d) * 6) \div 8) |-> byte(k)])]

(***************************************************************************)
(* PEM literals                                                            *)
(***************************************************************************)
Dashes == <<"-", "-", "-", "-", "-">>

W_BEGIN == <<"B", "E", "G", "I", "N">>

W_END == <<"E", "N", "D">>

W_PUBLIC == <<"P", "U", "B", "L", "I", "C">>

W_PRIVATE == <<"P", "R", "I", "V", "A", "T", "E">>

W_ENCRYPTED == <<"E", "N", "C", "R", "Y", "P", "T", "E", "D">>

W_RSA == <<"R", "S", "A">>

W_KEY == <<"K", "E", "Y">>

SP == <<" ">>

LF == <<"\n">>

PUBLIC_KEY == W_PUBLIC \o SP \o W_KEY

PRIVATE_KEY == W_PRIVATE \o SP \o W_KEY

ENCRYPTED_PRIVATE_KEY == W_ENCRYPTED \o SP \o W_PRIVATE \o SP \o W_KEY

RSA_PRIVATE_KEY == W_RSA \o SP \o W_PRIVATE \o SP \o W_KEY

\* "-----BEGIN <label>-----"
Begin(label) == Dashes \o W_BEGIN \o SP \o label \o Dashes

\* "-----END <label>-----"
End(label) == Dashes \o W_END \o SP \o label \o Dashes

(***************************************************************************)
(* format_rsa_key                                                          *)
(***************************************************************************)
\* strip_headers with the replace of the PUBLIC KEY footer left out
strip_headers_keeps_public_footer(key_content) ==
    LET c1 == Remove(key_content, Begin(PUBLIC_KEY))
        c3 == Remove(c1, Begin(PRIVATE_KEY))
        c4 == Remove(c3, End(PRIVATE_KEY))
        c5 == Remove(c4, Begin(ENCRYPTED_PRIVATE_KEY))
        c6 == Remove(c5, End(ENCRYPTED_PRIVATE_KEY))
        c7 == Remove(c6, Begin(RSA_PRIVATE_KEY))
    IN Remove(c7, End(RSA_PRIVATE_KEY))

\* lines 219-226: the eight replace calls, in the order of the code
strip_headers(key_content) ==
    LET c1 == Remove(key_content, Begin(PUBLIC_KEY))
        c2 == Remove(c1, End(PUBLIC_KEY))
        c3 == Remove(c2, Begin(PRIVATE_KEY))
        c4 == Remove(c3, End(PRIVATE_KEY))
        c5 == Remove(c4, Begin(ENCRYPTED_PRIVATE_KEY))
        c6 == Remove(c5, End(ENCRYPTED_PRIVATE_KEY))
        c7 == Remove(c6, Begin(RSA_PRIVATE_KEY))
    IN Remove(c7, End(RSA_PRIVATE_KEY))

\* lines 219-229: headers and footers removed, then all whitespace
normalise(key_content) == StripAllWhitespace(strip_headers(key_content))

\* int.from_bytes(b, byteorder="big")
RECURSIVE int_from_bytes(_)
int_from_bytes(b) ==
    IF b = <<>> THEN 0
    ELSE 256 * int_from_bytes(SubSeq(b, 1, Len(b) - 1)) + b[Len(b)]

SEQUENCE_TAG == 48

\* long_form_size without the length-indicator byte
long_form_size_without_indicator(num_length_bytes, total_length) ==
    1 + num_length_bytes + total_length

\* line 257: tag (1), length indicator (1), length bytes, and content
long_form_size(num_length_bytes, total_length) ==
    1 + 1 + num_length_bytes + total_length

\* lines 245-266: the size the outer SEQUENCE declares, [raised, size].
\* decoded[0] and decoded[1] raise IndexError on a buffer that short; a first
\* byte other than 0x30 leaves the content alone (size = len(decoded)).
actual_key_size(decoded) ==
    IF Len(decoded) = 0 THEN [raised |-> TRUE, size |-> 0]
    ELSE IF decoded[1] # SEQUENCE_TAG
      THEN [raised |-> FALSE, size |-> Len(decoded)]
    ELSE IF Len(decoded) = 1 THEN [raised |-> TRUE, size |-> 0]
    ELSE IF decoded[2] >= 128
      THEN LET num_length_bytes == decoded[2] % 128
           IN IF num_length_bytes > 0 /\ num_length_bytes <= 4
                THEN LET total_length ==
                             int_from_bytes(SubSeq(Prefix(decoded, 2 + num_length_bytes),
                                                   3, Len(Prefix(decoded, 2 + num_length_bytes))))
                     IN [raised |-> FALSE,
                         size |-> long_form_size(num_length_bytes, total_length)]
              ELSE [raised |-> FALSE, size |-> Len(decoded)]
    ELSE [raised |-> FALSE, size |-> 1 + 1 + decoded[2]]

\* valid_key cut one byte late
valid_key_one_more(decoded, actual) == Prefix(decoded, actual + 1)

\* line 275: decoded[:actual_key_size]
valid_key(decoded, actual) == Prefix(decoded, actual)

\* lines 236-290: for a private key, the payload cut at the end of the outer
\* SEQUENCE when bytes follow it; any exception leaves the payload as it is
trim_extra_data(content) ==
    LET dec == b64decode(content)
        decoded == dec.bytes
        sz == actual_key_size(decoded)
    IN IF ~dec.ok \/ sz.raised THEN content
       ELSE IF sz.size < Len(decoded)
         THEN b64encode(valid_key(decoded, sz.size))
       ELSE content

\* 06 09 2A 86 48 86 F7 0D 01 05 0D
PBES2_OID == <<6, 9, 42, 134, 72, 134, 247, 13, 1, 5, 13>>

\* 06 09 2A 86 48 86 F7 0D 01 05 0C
PBES1_OID == <<6, 9, 42, 134, 72, 134, 247, 13, 1, 5, 12>>

\* the OIDs looked for in all of the decoded bytes
is_encrypted_whole_buffer(content) ==
    LET dec == b64decode(content)
    IN IF dec.ok
         THEN Contains(dec.bytes, PBES2_OID) \/ Contains(dec.bytes, PBES1_OID)
       ELSE Len(content) > 1500

\* lines 303-318
is_encrypted(content) ==
    LET dec == b64decode(content)
    IN IF dec.ok
         THEN \/ Contains(Prefix(dec.bytes, 100), PBES2_OID)
              \/ Contains(Prefix(dec.bytes, 100), PBES1_OID)
       ELSE Len(content) > 1500

\* the line width of MIME base64
LINE_WIDTH_of_mime == 64 + 12

\* lines 292-295 and the "\n".join(lines) of line 328
LINE_WIDTH == 64

join_lines(content) ==
    LET n == Len(content)
        nLines == (n + LINE_WIDTH - 1) \div LINE_WIDTH
    IN Tuple([p \in 1..(n + nLines - 1) |->
                IF p % (LINE_WIDTH + 1) = 0 THEN "\n"
                ELSE content[p - (p \div (LINE_WIDTH + 1))]])

\* lines 298-325
header_label(content, key_type) ==
    IF key_type = "PUBLIC" THEN PUBLIC_KEY
    ELSE IF is_encrypted(content) THEN ENCRYPTED_PRIVATE_KEY
    ELSE PRIVATE_KEY

\* the payload format_rsa_key wraps: normalised, and trimmed for a private key
payload_of(key_content, key_type) ==
    IF key_type # "PUBLIC" THEN trim_extra_data(normalise(key_content))
    ELSE normalise(key_content)

\* format_rsa_key(key_content, key_type) -> str | None
format_rsa_key(key_content, key_type) ==
    IF normalise(key_content) = <<>> THEN None
    ELSE LET content == payload_of(key_content, key_type)
             label == header_label(content, key_type)
         IN Some(Begin(label) \o LF \o join_lines(content) \o LF \o End(label))

(***************************************************************************)
(* str.encode("utf-8") / bytes.decode("utf-8")                             *)
(***************************************************************************)
\* the UTF-8 bytes of one character: ASCII for the characters the model
\* writes with one byte, two bytes for e-acute (U+00E9), three for the euro
\* sign (U+20AC)
CharBytes(c) ==
    CASE c \in B64Chars ->
            LET v == B64Value[c]
            IN IF v < 26 THEN <<65 + v>>
               ELSE IF v < 52 THEN <<97 + (v - 26)>>
               ELSE IF v < 62 THEN <<48 + (v - 52)>>
               ELSE IF v = 62 THEN <<43>> ELSE <<47>>
      [] c = " " -> <<32>>
      [] c = "\t" -> <<9>>
      [] c = "\n" -> <<10>>
      [] c = "\r" -> <<13>>
      [] c = "-" -> <<45>>
      [] c = "=" -> <<61>>
      [] c = "|" -> <<124>>
      [] c = "e_acute" -> <<195, 169>>
      [] c = "euro" -> <<226, 130, 172>>

Chars == B64Chars \cup {" ", "\t", "\n", "\r", "-", "=", "|", "e_acute", "euro"}

\* the characters of a text up to and including position i take this many bytes
BytesUpTo(s, i) ==
    LET wide == {j \in 1..i : s[j] \in NonAscii}
    IN i + Cardinality({j \in wide : s[j] = "e_acute"})
         + 2 * Cardinality({j \in wide : s[j] = "euro"})

\* s.encode("utf-8")
utf8_encode(s) ==
    LET n == Len(s)
        ends == Tuple([i \in 1..n |-> BytesUpTo(s, i)])
    IN IF \A j \in 1..n : s[j] \notin NonAscii
         THEN Tuple([k \in 1..n |-> CharBytes(s[k])[1]])
       ELSE Tuple([k \in 1..ends[n] |->
               LET i == Min({j \in 1..n : ends[j] >= k})
               IN CharBytes(s[i])[k - (IF i = 1 THEN 0 ELSE ends[i - 1])]])

\* the number of bytes the character that starts with byte b takes; 0 for a
\* byte that starts no character (a continuation byte, an invalid byte)
LeadLength(b) ==
    IF b < 128 THEN 1
    ELSE IF b >= 194 /\ b <= 223 THEN 2
    ELSE IF b >= 224 /\ b <= 239 THEN 3
    ELSE IF b >= 240 /\ b <= 244 THEN 4
    ELSE 0

IsContinuation(b) == b >= 128 /\ b <= 191

\* the character whose UTF-8 bytes are bs; a character the model has no name
\* for is "other"
CharOf(bs) ==
    IF \E c \in Chars : CharBytes(c) = bs
      THEN CHOOSE c \in Chars : CharBytes(c) = bs
    ELSE "other"

\* b.decode("utf-8"): [ok, text]; not ok is UnicodeDecodeError
utf8_decode(b) ==
    LET n == Len(b)
        \* byte i continues the character that starts at one of the 3 bytes before
        covered(i) ==
            \E d \in 1..3 :
                /\ i - d >= 1
                /\ LeadLength(b[i - d]) > d
                /\ \A e \in 1..(d - 1) : IsContinuation(b[i - e])
        wellFormed ==
            \A i \in 1..n :
                IF IsContinuation(b[i]) THEN covered(i)
                ELSE /\ LeadLength(b[i]) >= 1
                     /\ i + LeadLength(b[i]) - 1 <= n
                     /\ \A e \in 1..(LeadLength(b[i]) - 1) : IsContinuation(b[i + e])
        starts == SelectSeq([i \in 1..n |-> IF IsContinuation(b[i]) THEN 0 ELSE i],
                            LAMBDA i : i # 0)
    IN IF \A i \in 1..n : b[i] < 128
         THEN [ok |-> TRUE, text |-> Tuple([i \in 1..n |-> CharOf(<<b[i]>>)])]
       ELSE IF ~wellFormed THEN [ok |-> FALSE, text |-> <<>>]
       ELSE [ok |-> TRUE,
             text |-> Tuple([k \in 1..Len(starts) |->
                         CharOf(SubSeq(b, starts[k],
                                       starts[k] + LeadLength(b[starts[k]]) - 1))])]

(***************************************************************************)
(* RSA keys and the cryptography library's PEM serialisation and loaders.  *)
(* A key pair is [id, bits].  Its DER encodings are scaled down to a few   *)
(* bytes that keep what the program looks at: the SEQUENCE tag, the length *)
(* field, the PBES2 OID of a passphrase-encrypted PKCS#8 key.  The         *)
(* encrypted encoding carries the passphrase bytes: the loader accepts the *)
(* password that equals them and no other.                                 *)
(***************************************************************************)
PublicDer(key) == <<48, 4, 1, key.id, key.bits \div 256, key.bits % 256>>

PrivateDer(key) == <<48, 4, 2, key.id, key.bits \div 256, key.bits % 256>>

EncryptedDer(key, password) ==
    <<48, 16 + Len(password), 48, 11>> \o PBES2_OID
        \o <<key.id, key.bits \div 256, key.bits % 256>> \o password

\* [ok, kind, key, password] of a DER buffer; trailing bytes make it invalid
ParseDer(d) ==
    LET bad == [ok |-> FALSE, kind |-> "none", key |-> [id |-> 0, bits |-> 0],
                password |-> <<>>]
    IN IF Len(d) < 6 \/ d[1] # 48 \/ d[2] # Len(d) - 2 THEN bad
       ELSE IF d[3] \in {1, 2} /\ Len(d) = 6
         THEN [ok |-> TRUE, kind |-> IF d[3] = 1 THEN "public" ELSE "private",
               key |-> [id |-> d[4], bits |-> d[5] * 256 + d[6]], password |-> <<>>]
       ELSE IF Len(d) >= 18 /\ d[3] = 48 /\ d[4] = 11 /\ SubSeq(d, 5, 15) = PBES2_OID
         THEN [ok |-> TRUE, kind |-> "encrypted",
               key |-> [id |-> d[16], bits |-> d[17] * 256 + d[18]],
               password |-> Tail_from(d, 19)]
       ELSE bad

\* the library's PEM text: header, base64 in lines of 64, footer, each line
\* ended by a line break
Wrap64(x) ==
    LET n == Len(x)
        nLines == (n + 63) \div 64
    IN Tuple([p \in 1..(n + nLines) |->
                IF p % 65 = 0 \/ p = n + nLines THEN "\n" ELSE x[p - (p \div 65)]])

pem_serialize(label, der) ==
    Begin(label) \o LF \o Wrap64(b64encode(der)) \o End(label) \o LF

PemLabels == {PUBLIC_KEY, PRIVATE_KEY, ENCRYPTED_PRIVATE_KEY, RSA_PRIVATE_KEY}

\* [ok, label, der] of a PEM text: a BEGIN line, base64 lines, the END line
\* of the same label
PemParse(text) ==
    LET bad == [ok |-> FALSE, label |-> <<>>, der |-> <<>>]
        t == IF text # <<>> /\ text[Len(text)] = "\n"
               THEN SubSeq(text, 1, Len(text) - 1) ELSE text
    IN With({i \in 1..Len(t) : t[i] = "\n"}, LAMBDA breaks :
       IF Cardinality(breaks) < 2 THEN bad
       ELSE
       With(Min(breaks), LAMBDA first :
       With(CHOOSE i \in breaks : \A j \in breaks : j <= i, LAMBDA last :
       With(SubSeq(t, 1, first - 1), LAMBDA head :
       With(SubSeq(t, last + 1, Len(t)), LAMBDA foot :
       With(SelectSeq(SubSeq(t, first + 1, last - 1), NotSpace), LAMBDA body :
       With(b64decode(body), LAMBDA dec :
          IF /\ \E label \in PemLabels : head = Begin(label) /\ foot = End(label)
             /\ body # <<>>
             /\ \A i \in 1..Len(body) : IsB64Significant(body[i])
             /\ dec.ok
            THEN [ok |-> TRUE,
                  label |-> CHOOSE label \in PemLabels : head = Begin(label),
                  der |-> dec.bytes]
          ELSE bad)))))))

NoKey == [id |-> 0, bits |-> 0]

\* serialization.load_pem_public_key(data): [err, key], err "" on success
load_pem_public_key(data) ==
    With(PemParse(data), LAMBDA pem :
    With(ParseDer(pem.der), LAMBDA der :
       IF pem.ok /\ pem.label = PUBLIC_KEY /\ der.ok /\ der.kind = "public"
         THEN [err |-> "", key |-> der.key]
       ELSE [err |-> "ValueError", key |-> NoKey]))

\* serialization.load_pem_private_key(data, password): password is None or
\* Some(bytes).  TypeError: a password for a key that is not encrypted, or
\* none for one that is; ValueError: the wrong password, or no valid key.
load_pem_private_key(data, password) ==
    With(PemParse(data), LAMBDA pem :
    With(ParseDer(pem.der), LAMBDA der :
       IF ~pem.ok \/ ~der.ok THEN [err |-> "ValueError", key |-> NoKey]
       ELSE IF pem.label = PRIVATE_KEY /\ der.kind = "private"
         THEN IF password.none THEN [err |-> "", key |-> der.key]
              ELSE [err |-> "TypeError", key |-> NoKey]
       ELSE IF pem.label = ENCRYPTED_PRIVATE_KEY /\ der.kind = "encrypted"
         THEN IF password.none THEN [err |-> "TypeError", key |-> NoKey]
              ELSE IF password.val = der.password THEN [err |-> "", key |-> der.key]
              ELSE [err |-> "ValueError", key |-> NoKey]
       ELSE [err |-> "ValueError", key |-> NoKey]))

\* Python truthiness of an optional str
Truthy(x) == ~x.none /\ x.val # <<>>

MIN_KEY_SIZE == 2048

\* the size asked for, whatever it is
Max2_takes_request(a, b) == b

Max2(a, b) == IF a >= b THEN a ELSE b

\* a passphrase handed over as a bytes object, written as the text its
\* ASCII bytes spell
PassBytes(b) == [none |-> FALSE, val |-> b, bytes |-> TRUE]

IsBytes(x) == "bytes" \in DOMAIN x

\* the generation that never encrypts the private key
generate_rsa_key_pair_without_encryption(passphrase, key_size, id) ==
    LET key == [id |-> id, bits |-> Max2(MIN_KEY_SIZE, key_size)]
    IN <<Some(pem_serialize(PRIVATE_KEY, PrivateDer(key))),
         Some(pem_serialize(PUBLIC_KEY, PublicDer(key))), passphrase>>

\* generate_rsa_key_pair(passphrase, key_size) for the id-th key pair drawn:
\* (private_pem, public_pem, passphrase), or (None, None, None) after an
\* exception: a non-empty bytes passphrase has no encode (AttributeError)
generate_rsa_key_pair(passphrase, key_size, id) ==
    LET key == [id |-> id, bits |-> Max2(MIN_KEY_SIZE, key_size)]
        private_pem ==
            IF Truthy(passphrase)
              THEN pem_serialize(ENCRYPTED_PRIVATE_KEY,
                                 EncryptedDer(key, utf8_encode(passphrase.val)))
            ELSE pem_serialize(PRIVATE_KEY, PrivateDer(key))
        public_pem == pem_serialize(PUBLIC_KEY, PublicDer(key))
    IN IF Truthy(passphrase) /\ IsBytes(passphrase) THEN <<None, None, None>>
       ELSE <<Some(private_pem), Some(public_pem), passphrase>>

(***************************************************************************)
(* The key store                                                           *)
(***************************************************************************)
NoFile == [exists |-> FALSE, data |-> <<>>]

FileOf(data) == [exists |-> TRUE, data |-> data]

\* ~/Documents/TinyEncryptor_Keys
KEYS_DIR == "keys_dir"

\* the working directory of the process
CWD == "cwd"

Dirs == {KEYS_DIR, CWD}

KeyFileNames == {"public_key.pem", "private_key.pem"}

KeyPaths == Dirs \X KeyFileNames

\* the keys are looked up in the working directory
get_keys_directory_is_cwd == CWD

get_keys_directory == KEYS_DIR

NoKeyFiles == [p \in KeyPaths |-> NoFile]

NoCall == [op |-> "none"]

\* the binary files, as <<directory, name>>: the file to encrypt, an output
\* path where no file is yet, an output path where a file already is
INPUT_FILE == <<"data", "input.bin">>

OUT_NEW == <<"out", "new.bin">>

OUT_OLD == <<"out", "old.bin">>

FilePaths == {INPUT_FILE, OUT_NEW, OUT_OLD}

NoFiles == [p \in FilePaths |-> NoFile]

\* retrieve_rsa_keys(): False, or (True, private_key, public_key)
retrieve_rsa_keys(kf) ==
    LET keys_dir == get_keys_directory
        private_key_file == <<keys_dir, "private_key.pem">>
        public_key_file == <<keys_dir, "public_key.pem">>
    IN IF ~kf[private_key_file].exists \/ ~kf[public_key_file].exists
         THEN [shape |-> "bool", ok |-> FALSE, private |-> None, public |-> None]
       ELSE [shape |-> "tuple", ok |-> TRUE,
             private |-> Some(kf[private_key_file].data),
             public |-> Some(kf[public_key_file].data)]

\* import_external_rsa_keys(private, public, passphrase): [ret, keyfiles],
\* the value returned and the key files afterwards; unwritable are the
\* paths that open(path, "w") refuses (PermissionError)
import_external_rsa_keys(kf, private, public, passphrase, unwritable) ==
    LET failed == [shape |-> "tuple", ok |-> FALSE, private |-> None, public |-> None]
        password_bytes ==
            IF Truthy(passphrase) THEN Some(utf8_encode(passphrase.val)) ELSE None
        keys_dir == get_keys_directory
    IN IF ~Truthy(public) \/ ~Truthy(private)
         THEN [ret |-> failed, keyfiles |-> kf]
       ELSE
       With(format_rsa_key(public.val, "PUBLIC"), LAMBDA public_key_formatted :
       With(format_rsa_key(private.val, "PRIVATE"), LAMBDA private_key_formatted :
          IF public_key_formatted.none \/ private_key_formatted.none
            THEN [ret |-> [shape |-> "bool", ok |-> FALSE, private |-> None,
                           public |-> None],
                  keyfiles |-> kf]
          ELSE IF load_pem_public_key(public_key_formatted.val).err # ""
            THEN [ret |-> failed, keyfiles |-> kf]
          ELSE IF /\ load_pem_private_key(private_key_formatted.val,
                                          password_bytes).err # ""
                  /\ Truthy(passphrase)
            THEN [ret |-> failed, keyfiles |-> kf]
          ELSE IF <<keys_dir, "public_key.pem">> \in unwritable
            THEN [ret |-> failed, keyfiles |-> kf]
          ELSE IF <<keys_dir, "private_key.pem">> \in unwritable
            THEN [ret |-> failed,
                  keyfiles |-> [kf EXCEPT
                      ![<<keys_dir, "public_key.pem">>] =
                          FileOf(public_key_formatted.val)]]
          ELSE [ret |-> [shape |-> "tuple", ok |-> TRUE,
                         private |-> private_key_formatted,
                         public |-> public_key_formatted],
                keyfiles |-> [kf EXCEPT
                    ![<<keys_dir, "public_key.pem">>] = FileOf(public_key_formatted.val),
                    ![<<keys_dir, "private_key.pem">>] =
                        FileOf(private_key_formatted.val)]]))

(***************************************************************************)
(* Chunked RSA-OAEP text encryption                                        *)
(***************************************************************************)
max_chunk_size == 245

\* the digest size of hashes.SHA256(), in bytes
HASH_LEN == 32

\* RSA-OAEP takes at most k - 2*hLen - 2 bytes, k the modulus size in bytes
oaep_max_plaintext(key) == key.bits \div 8 - 2 * HASH_LEN - 2

\* public_key.encrypt(chunk, OAEP): [err, bytes].  The ciphertext stands for
\* one only the private key of the same pair opens: the key id, then the chunk.
public_key_encrypt(key, chunk) ==
    IF Len(chunk) > oaep_max_plaintext(key)
      THEN [err |-> "ValueError", bytes |-> <<>>]
    ELSE [err |-> "", bytes |-> <<key.id>> \o chunk]

\* private_key.decrypt(encrypted_bytes, OAEP): [err, bytes]
private_key_decrypt(key, encrypted_bytes) ==
    IF /\ encrypted_bytes # <<>>
       /\ encrypted_bytes[1] = key.id
       /\ Len(encrypted_bytes) - 1 <= oaep_max_plaintext(key)
      THEN [err |-> "", bytes |-> Tail(encrypted_bytes)]
    ELSE [err |-> "ValueError", bytes |-> <<>>]

\* data_bytes[i : i + max_chunk_size] for i in range(0, len(data_bytes), max_chunk_size)
chunks_of(data_bytes) ==
    LET n == Len(data_bytes)
    IN Tuple([k \in 1..((n + max_chunk_size - 1) \div max_chunk_size) |->
          SubSeq(data_bytes, (k - 1) * max_chunk_size + 1,
                 IF k * max_chunk_size < n THEN k * max_chunk_size ELSE n)])

\* sep.join(parts)
RECURSIVE join(_, _)
join(sep, parts) ==
    IF parts = <<>> THEN <<>>
    ELSE IF Len(parts) = 1 THEN parts[1]
    ELSE join(sep, SubSeq(parts, 1, Len(parts) \div 2))
            \o sep \o join(sep, SubSeq(parts, (Len(parts) \div 2) + 1, Len(parts)))

\* s.split(sep, 1): the text before the first separator and all that follows it
split_once(s, sep) ==
    With({i \in 1..Len(s) : s[i] = sep}, LAMBDA cuts :
       IF cuts = {} THEN <<s>>
       ELSE <<SubSeq(s, 1, Min(cuts) - 1), SubSeq(s, Min(cuts) + 1, Len(s))>>)

\* s.split(sep) for a separator of one character
split(s, sep) ==
    LET cuts == {i \in 1..Len(s) : s[i] = sep}
        \* where the k-th piece ends: before the k-th separator, or with s
        cut == Tuple([k \in 1..(Cardinality(cuts) + 1) |->
                  IF k = Cardinality(cuts) + 1 THEN Len(s) + 1
                  ELSE CHOOSE i \in cuts : Cardinality({j \in cuts : j < i}) = k - 1])
    IN Tuple([k \in 1..(Cardinality(cuts) + 1) |->
                SubSeq(s, (IF k = 1 THEN 0 ELSE cut[k - 1]) + 1, cut[k] - 1)])

\* s.strip()
strip(s) ==
    LET keep == {i \in 1..Len(s) : NotSpace(s[i])}
    IN IF keep = {} THEN <<>>
       ELSE SubSeq(s, Min(keep), CHOOSE i \in keep : \A j \in keep : j <= i)

\* base64.b64decode(chunk.encode("utf-8")): the bytes of a non-ASCII character
\* are outside the alphabet and are skipped
b64decode_bytes(chunk) == b64decode(SelectSeq(chunk, LAMBDA c : c \notin NonAscii))

DefaultPath(path, name) == IF path.none THEN <<get_keys_directory, name>> ELSE path.val

\* encrypt_with_rsa_public_key(data, public_key_path): None or Some(token)
encrypt_with_rsa_public_key(kf, data, public_key_path) ==
    With(DefaultPath(public_key_path, "public_key.pem"), LAMBDA path :
    IF ~kf[path].exists THEN None
    ELSE
    With(load_pem_public_key(kf[path].data), LAMBDA public_key :
    IF public_key.err # "" THEN None
    ELSE
    With(chunks_of(utf8_encode(data)), LAMBDA chunks :
    With(Tuple([k \in 1..Len(chunks) |-> public_key_encrypt(public_key.key, chunks[k])]),
         LAMBDA encrypted :
       IF \E k \in 1..Len(chunks) : encrypted[k].err # "" THEN None
       ELSE Some(join(<<"|">>,
                      Tuple([k \in 1..Len(chunks) |-> b64encode(encrypted[k].bytes)])))))))

\* the list without its stripped form
passphrases_to_try_no_strip(passphrase) ==
    << utf8_encode(passphrase),
       utf8_encode(SelectSeq(passphrase, LAMBDA c : c # " ")),
       utf8_encode(passphrase) >>

\* the passwords decrypt_with_rsa_private_key tries, in order
passphrases_to_try(passphrase) ==
    << utf8_encode(passphrase),
       utf8_encode(strip(passphrase)),
       utf8_encode(SelectSeq(passphrase, LAMBDA c : c # " ")),
       utf8_encode(passphrase) >>

\* the private key loaded with the first password that opens it
load_with_retries(key_data, tries) ==
    With({i \in 1..Len(tries) :
            load_pem_private_key(key_data, Some(tries[i])).err = ""}, LAMBDA opens :
       IF opens = {} THEN [err |-> "None", key |-> NoKey]
       ELSE load_pem_private_key(key_data, Some(tries[Min(opens)])))

\* the decryption that passes over the chunks that fail and returns the rest
decrypt_with_rsa_private_key_skipping_failed_chunks(kf, encrypted_data, private_key_path, passphrase) ==
    With(DefaultPath(private_key_path, "private_key.pem"), LAMBDA path :
    IF ~kf[path].exists \/ encrypted_data.none THEN None
    ELSE
    With(IF Truthy(passphrase)
           THEN load_with_retries(kf[path].data, passphrases_to_try(passphrase.val))
         ELSE load_pem_private_key(kf[path].data, None), LAMBDA private_key :
    IF private_key.err # "" THEN None
    ELSE
    With(split(encrypted_data.val, "|"), LAMBDA encrypted_chunks :
    With(Tuple([k \in 1..Len(encrypted_chunks) |->
                  With(b64decode_bytes(encrypted_chunks[k]), LAMBDA encrypted_bytes :
                     IF ~encrypted_bytes.ok THEN <<>>
                     ELSE private_key_decrypt(private_key.key,
                                              encrypted_bytes.bytes).bytes)]),
         LAMBDA decrypted :
    With(utf8_decode(join(<<>>, decrypted)), LAMBDA text :
       IF ~text.ok THEN None ELSE Some(text.text))))))

\* decrypt_with_rsa_private_key(encrypted_data, private_key_path, passphrase):
\* None or Some(text)
decrypt_with_rsa_private_key(kf, encrypted_data, private_key_path, passphrase) ==
    With(DefaultPath(private_key_path, "private_key.pem"), LAMBDA path :
    IF ~kf[path].exists THEN None
    ELSE
    With(IF Truthy(passphrase)
           THEN load_with_retries(kf[path].data, passphrases_to_try(passphrase.val))
         ELSE load_pem_private_key(kf[path].data, None), LAMBDA private_key :
    IF private_key.err # "" THEN None
    ELSE IF encrypted_data.none THEN None
    ELSE
    With(split(encrypted_data.val, "|"), LAMBDA encrypted_chunks :
    With(Tuple([k \in 1..Len(encrypted_chunks) |->
                  b64decode_bytes(encrypted_chunks[k])]), LAMBDA encrypted_bytes :
    With(Tuple([k \in 1..Len(encrypted_chunks) |->
                  private_key_decrypt(private_key.key, encrypted_bytes[k].bytes)]),
         LAMBDA decrypted :
    IF \E k \in 1..Len(encrypted_chunks) :
          ~encrypted_bytes[k].ok \/ decrypted[k].err # "" THEN None
    ELSE
    With(utf8_decode(join(<<>>, Tuple([k \in 1..Len(encrypted_chunks) |->
                                         decrypted[k].bytes]))), LAMBDA text :
       IF ~text.ok THEN None ELSE Some(text.text)))))))

(***************************************************************************)
(* Fernet file encryption.  The library's cipher is scaled down: a token   *)
(* is the URL-safe base64 text of a version byte, the enciphered data and  *)
(* a keyed checksum of two bytes that changes with every changed byte, as  *)
(* the HMAC of a Fernet token does.  The library decodes keys and tokens   *)
(* with base64.urlsafe_b64decode, which is what the model does.            *)
(***************************************************************************)
FERNET_KEY_BYTES == 32

FERNET_HALF == FERNET_KEY_BYTES \div 2

\* the version byte 0x80 that starts a token
FERNET_VERSION == 128

\* the checksum is taken modulo a prime above every byte value
MAC_MODULUS == 257

RECURSIVE Sum(_)
Sum(b) == IF b = <<>> THEN 0 ELSE b[1] + Sum(Tail(b))

urlsafe(c) == IF c = "+" THEN "-" ELSE IF c = "/" THEN "_" ELSE c

standard(c) == IF c = "-" THEN "+" ELSE IF c = "_" THEN "/" ELSE c

\* base64.urlsafe_b64encode(b).decode()
urlsafe_b64encode(b) ==
    With(b64encode(b), LAMBDA t : Tuple([i \in 1..Len(t) |-> urlsafe(t[i])]))

\* base64.urlsafe_b64decode(s): [ok, bytes]
urlsafe_b64decode(s) == b64decode(Tuple([i \in 1..Len(s) |-> standard(s[i])]))

\* the bytes of the id-th key Fernet.generate_key() draws
KeyBytes(id) == Tuple([i \in 1..FERNET_KEY_BYTES |-> (37 * id + 11 * i) % 256])

\* Fernet.generate_key().decode()
fernet_generate_key(id) == urlsafe_b64encode(KeyBytes(id))

\* Fernet(key): [err, signing, encryption]; a key that is not the base64 of
\* 32 bytes is a ValueError
Fernet(key) ==
    With(urlsafe_b64decode(key), LAMBDA dec :
       IF ~dec.ok \/ Len(dec.bytes) # FERNET_KEY_BYTES
         THEN [err |-> "ValueError", signing |-> <<>>, encryption |-> <<>>]
       ELSE [err |-> "", signing |-> SubSeq(dec.bytes, 1, FERNET_HALF),
             encryption |-> SubSeq(dec.bytes, FERNET_HALF + 1, FERNET_KEY_BYTES)])

mac(signing, body) ==
    With((Sum(body) + Sum(signing)) % MAC_MODULUS, LAMBDA sum :
       <<sum \div 256, sum % 256>>)

encipher(encryption, data) ==
    Tuple([i \in 1..Len(data) |->
             (data[i] + encryption[((i - 1) % FERNET_HALF) + 1]) % 256])

decipher(encryption, data) ==
    Tuple([i \in 1..Len(data) |->
             (data[i] + 256 - encryption[((i - 1) % FERNET_HALF) + 1]) % 256])

\* fernet.encrypt(data).decode()
fernet_encrypt(f, data) ==
    With(<<FERNET_VERSION>> \o encipher(f.encryption, data), LAMBDA body :
       urlsafe_b64encode(body \o mac(f.signing, body)))

\* the decryption without the check of the checksum
fernet_decrypt_unauthenticated(f, token) ==
    With(urlsafe_b64decode(token), LAMBDA dec :
       IF ~dec.ok \/ Len(dec.bytes) < 3 \/ dec.bytes[1] # FERNET_VERSION
         THEN [err |-> "InvalidToken", data |-> <<>>]
       ELSE [err |-> "",
             data |-> decipher(f.encryption, SubSeq(dec.bytes, 2, Len(dec.bytes) - 2))])

\* fernet.decrypt(token): [err, data]
fernet_decrypt(f, token) ==
    With(urlsafe_b64decode(token), LAMBDA dec :
       IF ~dec.ok \/ Len(dec.bytes) < 3 \/ dec.bytes[1] # FERNET_VERSION
         THEN [err |-> "InvalidToken", data |-> <<>>]
       ELSE IF mac(f.signing, Prefix(dec.bytes, Len(dec.bytes) - 2))
                 # Tail_from(dec.bytes, Len(dec.bytes) - 1)
         THEN [err |-> "InvalidToken", data |-> <<>>]
       ELSE [err |-> "",
             data |-> decipher(f.encryption, SubSeq(dec.bytes, 2, Len(dec.bytes) - 2))])

\* os.path.basename(file_path)
basename(file_path) == file_path[2]

\* encrypt_file_with_fernet(file_path), its key the id-th one drawn:
\* (encrypted_data, key, name), or (None, None, None)
encrypt_file_with_fernet(fs, file_path, id) ==
    IF ~fs[file_path].exists THEN <<None, None, None>>
    ELSE With(b64encode(fs[file_path].data), LAMBDA file_data_b64 :
         With(fernet_generate_key(id), LAMBDA key :
            <<Some(fernet_encrypt(Fernet(key), utf8_encode(file_data_b64))),
              Some(key), Some(basename(file_path))>>))

\* with open(output_filename, "ab") as f: f.write(file_data)
open_ab_write(fs, output_filename, file_data) ==
    [fs EXCEPT ![output_filename] = FileOf(@.data \o file_data)]

\* with open(output_filename, "wb") as f: f.write(file_data)
open_wb_write(fs, output_filename, file_data) ==
    [fs EXCEPT ![output_filename] = FileOf(file_data)]

\* decrypt_file_with_fernet(encrypted_data, key, output_filename): [ret, files],
\* the value returned and the files afterwards.  Every exception ends in
\* False: a None argument (AttributeError), a key that is no key, a token the
\* key does not open, and, with no output_filename, os.time, which the os
\* module does not have (AttributeError).
decrypt_file_with_fernet(fs, encrypted_data, key, output_filename) ==
    LET failed == [ret |-> FALSE, files |-> fs]
    IN IF key.none \/ encrypted_data.none THEN failed
       ELSE
       With(Fernet(key.val), LAMBDA fernet :
       IF fernet.err # "" THEN failed
       ELSE
       With(fernet_decrypt(fernet, encrypted_data.val), LAMBDA decrypted_b64 :
       IF decrypted_b64.err # "" THEN failed
       ELSE
       With(utf8_decode(decrypted_b64.data), LAMBDA text :
       IF ~text.ok THEN failed
       ELSE
       With(b64decode(text.text), LAMBDA file_data :
       IF ~file_data.ok THEN failed
       ELSE IF ~Truthy(output_filename) THEN failed
       ELSE [ret |-> TRUE,
             files |-> open_wb_write(fs, output_filename.val, file_data.bytes)]))))

(***************************************************************************)
(* Inputs of format_rsa_key: DER-like buffers, base64-encoded and pasted   *)
(* bare, as a PEM block, or with stray whitespace                          *)
(***************************************************************************)
\* the largest number of length bytes tried after a long-form indicator
MaxLenBytes == 5

\* trailing bytes appended after the SEQUENCE: 0..MaxExtra, and EXTRA_SPEC
MaxExtra == 2

\* bytes of declared content missing from the buffer: 0..MaxMissing
MaxMissing == 1

\* passes of format_rsa_key over its own output
MaxPasses == 2

\* the trailing-byte count of the specification's boundary-trimming case
EXTRA_SPEC == 37

DeclaredLens == {0, 1, 13, 46}

ExtraSizes == (0..MaxExtra) \cup {EXTRA_SPEC}

\* -1: the indicator 0x80 (no length bytes); 0: short form; n: n length bytes
LenForms == -1..MaxLenBytes

\* n as `width` big-endian bytes
RECURSIVE BigEndian(_, _)
BigEndian(n, width) ==
    IF width = 0 THEN <<>>
    ELSE BigEndian(n \div 256, width - 1) \o <<n % 256>>

LenOctets(form, declared) ==
    CASE form = -1 -> <<128>>
      [] form = 0 -> <<declared>>
      [] OTHER -> <<128 + form>> \o BigEndian(declared, form)

\* content bytes that differ from place to place, so a wrong cut shows
Filler(n, seed) == [i \in 1..n |-> (seed + 7 * i) % 256]

OidChoices == {<<>>, PBES2_OID, PBES1_OID}

DerBuffer(tag, form, declared, missing, extra, oid) ==
    <<tag>> \o LenOctets(form, declared)
            \o Prefix(oid \o Filler(declared, 3), declared - missing)
            \o Filler(extra, 101)

\* buffers that start with the SEQUENCE tag
SequenceBuffers ==
    {DerBuffer(SEQUENCE_TAG, form, declared, missing, extra, <<>>) :
        form \in LenForms, declared \in DeclaredLens,
        missing \in 0..MaxMissing, extra \in ExtraSizes}

\* buffers that start with another tag
OtherTagBuffers ==
    {DerBuffer(49, form, declared, 0, extra, <<>>) :
        form \in {0, 1}, declared \in {1, 13}, extra \in {0, EXTRA_SPEC}}

\* buffers with or without a PBES OID, some of them longer than a line
OidBuffers ==
    {DerBuffer(SEQUENCE_TAG, form, declared, 0, extra, oid) :
        form \in {0, 2}, declared \in {13, 98}, extra \in {0, 1},
        oid \in OidChoices}

\* buffers too short to hold a tag and a length
ShortBuffers == {<<>>, <<SEQUENCE_TAG>>, <<SEQUENCE_TAG, 129>>, <<SEQUENCE_TAG, 130, 1>>}

PrivateBuffers == SequenceBuffers \cup OtherTagBuffers \cup OidBuffers \cup ShortBuffers

\* a public key is never decoded: buffers of assorted lengths are enough
PublicBuffers ==
    OtherTagBuffers \cup OidBuffers \cup ShortBuffers
    \cup {DerBuffer(SEQUENCE_TAG, 0, 46, 0, extra, <<>>) : extra \in ExtraSizes}

Decorations == {"bare", "pem", "spaced"}

Decorate(x, deco, label) ==
    CASE deco = "bare" -> x
      [] deco = "pem" -> Begin(label) \o LF \o join_lines(x) \o LF \o End(label) \o LF
      [] deco = "spaced" -> SP \o Prefix(x, 3) \o <<"\r", "\n">> \o Tail_from(x, 4) \o <<"\t">>

InputLabel(key_type) == IF key_type = "PUBLIC" THEN PUBLIC_KEY ELSE PRIVATE_KEY

\* texts that are not the base64 of any buffer
RawTexts ==
    {<<>>, <<" ", "\n">>, <<"A">>, <<"A", "B">>, <<"A", "B", "=">>,
     <<"M", "A", "=", "=", "M", "A", "=", "=">>,
     <<"M", "A", "A", "e_acute">>,
     Dashes \o <<"M", "A", "A", "=">> \o Dashes,
     Begin(RSA_PRIVATE_KEY) \o LF \o <<"M", "A", "A", "=">> \o LF \o End(RSA_PRIVATE_KEY),
     Begin(ENCRYPTED_PRIVATE_KEY) \o End(ENCRYPTED_PRIVATE_KEY)}

KeyTypes == {"PUBLIC", "PRIVATE"}

FormatInputs(key_type) ==
    {Decorate(b64encode(b), deco, InputLabel(key_type)) :
        b \in (IF key_type = "PUBLIC" THEN PublicBuffers ELSE PrivateBuffers),
        deco \in Decorations}
    \cup RawTexts

(***************************************************************************)
(* SpecFormat: format_rsa_key applied to an input, then to its own output  *)
(***************************************************************************)
FmtIdle == [key_type |-> "PUBLIC", key_content |-> <<>>, outs |-> <<>>]

InitFormat ==
    /\ \E key_type \in KeyTypes :
        \E key_content \in FormatInputs(key_type) :
            fmt = [key_type |-> key_type, key_content |-> key_content, outs |-> <<>>]
    /\ keyfiles = NoKeyFiles
    /\ files = NoFiles
    /\ generated = 0
    /\ call = NoCall

\* the first call formats the input
FormatFirst ==
    /\ fmt.outs = <<>>
    /\ fmt' = [fmt EXCEPT !.outs = <<format_rsa_key(fmt.key_content, fmt.key_type)>>]
    /\ UNCHANGED <<keyfiles, files, generated, call>>

\* a later call formats the PEM text the call before it returned
FormatAgain ==
    /\ fmt.outs # <<>>
    /\ Len(fmt.outs) < MaxPasses
    /\ ~fmt.outs[Len(fmt.outs)].none
    /\ fmt' = [fmt EXCEPT !.outs =
                 Append(@, format_rsa_key(fmt.outs[Len(fmt.outs)].val, fmt.key_type))]
    /\ UNCHANGED <<keyfiles, files, generated, call>>

NextFormat == FormatFirst \/ FormatAgain

SpecFormat == InitFormat /\ [][NextFormat]_vars

(***************************************************************************)
(* Claims about format_rsa_key (SpecFormat)                                *)
(***************************************************************************)
\* the input of the i-th call of a run, and what that call returned
FmtInput(i) == IF i = 1 THEN fmt.key_content ELSE fmt.outs[i - 1].val

FmtCalls == 1..Len(fmt.outs)

\* the text between the first and the last line break of a PEM block, its
\* line breaks taken out: the base64 body
PemBody(pem) ==
    LET breaks == {i \in 1..Len(pem) : pem[i] = "\n"}
        first == Min(breaks)
        last == CHOOSE i \in breaks : \A j \in breaks : j <= i
    IN SelectSeq(SubSeq(pem, first + 1, last - 1), NotSpace)

\* the first line of a PEM block
PemFirstLine(pem) ==
    LET breaks == {i \in 1..Len(pem) : pem[i] = "\n"}
    IN SubSeq(pem, 1, Min(breaks) - 1)

\* the last line of a PEM block
PemLastLine(pem) ==
    LET breaks == {i \in 1..Len(pem) : pem[i] = "\n"}
        last == CHOOSE i \in breaks : \A j \in breaks : j <= i
    IN SubSeq(pem, last + 1, Len(pem))

\* the input with the header and footer lines and all whitespace taken out,
\* for an input that holds at most the one PEM block: what is left to decode
Pasted(i) == normalise(FmtInput(i))

\* d starts with the SEQUENCE tag and a short-form length, or a long-form
\* length of 1 to 4 bytes that are all there
HasValidLength(d) ==
    /\ Len(d) >= 2
    /\ d[1] = 48
    /\ \/ d[2] < 128
       \/ /\ d[2] - 128 \in 1..4
          /\ Len(d) >= 2 + (d[2] - 128)

\* the number of length bytes after the length-indicator byte
NumLengthBytes(d) == IF d[2] < 128 THEN 0 ELSE d[2] - 128

\* the length the SEQUENCE declares
DeclaredLength(d) ==
    IF d[2] < 128 THEN d[2]
    ELSE LET n == d[2] - 128
             term(j) == IF j <= n THEN d[2 + j] ELSE 0
         IN CASE n = 1 -> term(1)
              [] n = 2 -> term(1) * 256 + term(2)
              [] n = 3 -> (term(1) * 256 + term(2)) * 256 + term(3)
              [] n = 4 -> ((term(1) * 256 + term(2)) * 256 + term(3)) * 256 + term(4)

\* tag + length indicator + length bytes + declared content
DeclaredSize(d) == 1 + 1 + NumLengthBytes(d) + DeclaredLength(d)

\* k bytes follow the SEQUENCE the buffer starts with
TrailingBytes(d) == Len(d) - DeclaredSize(d)

\* C8: a private-key payload whose decoded bytes are a SEQUENCE with a valid
\* short-form or 1-to-4-byte long-form length followed by k >= 1 trailing
\* bytes is cut to 1 + 1 + num_length_bytes + declared_length bytes: the PEM
\* returned holds the base64 of the buffer without its last k bytes.
C8_TrimsExactlyTrailing ==
    \A i \in FmtCalls :
        LET dec == b64decode(Pasted(i))
            d == dec.bytes
        IN (/\ fmt.key_type = "PRIVATE"
            /\ dec.ok
            /\ HasValidLength(d)
            /\ TrailingBytes(d) >= 1)
           => /\ ~fmt.outs[i].none
              /\ PemBody(fmt.outs[i].val)
                    = b64encode(SubSeq(d, 1, Len(d) - TrailingBytes(d)))
              /\ b64decode(PemBody(fmt.outs[i].val)).bytes
                    = SubSeq(d, 1, DeclaredSize(d))

\* C8 witness: the 37 trailing bytes of the specification's case, after a
\* SEQUENCE with a two-byte long-form length, have been formatted
C8_Witness ==
    /\ fmt.key_type = "PRIVATE"
    /\ Len(fmt.outs) >= 1
    /\ LET dec == b64decode(Pasted(1))
       IN /\ dec.ok
          /\ HasValidLength(dec.bytes)
          /\ NumLengthBytes(dec.bytes) = 2
          /\ DeclaredLength(dec.bytes) = 46
          /\ TrailingBytes(dec.bytes) = EXTRA_SPEC
          /\ Len(b64decode(PemBody(fmt.outs[1].val)).bytes) = 50

\* the body of a PEM block decodes to a SEQUENCE whose declared length is the
\* length of what follows the length field
IsExactSequence(pem) ==
    LET dec == b64decode(PemBody(pem))
    IN /\ dec.ok
       /\ HasValidLength(dec.bytes)
       /\ TrailingBytes(dec.bytes) = 0

IsBase64Payload(x) ==
    /\ x # <<>>
    /\ \A i \in 1..Len(x) : x[i] \in B64Chars \cup {"="}

\* C10: for a non-empty base64 payload x, formatting as PUBLIC the PEM that
\* formatting x as PUBLIC returned gives that PEM again, character for
\* character.
C10_PublicIdempotent ==
    (/\ fmt.key_type = "PUBLIC"
     /\ IsBase64Payload(fmt.key_content)
     /\ Len(fmt.outs) >= 2)
    => /\ ~fmt.outs[1].none
       /\ fmt.outs[2] = fmt.outs[1]
       /\ PemBody(fmt.outs[1].val) = fmt.key_content

\* C10 witness: a payload of more than two lines was formatted twice
C10_Witness ==
    /\ fmt.key_type = "PUBLIC"
    /\ IsBase64Payload(fmt.key_content)
    /\ Len(fmt.key_content) > 128
    /\ Len(fmt.outs) = 2
    /\ ~fmt.outs[2].none

(***************************************************************************)
(* SpecRsa: a key pair is generated and saved to the keys directory, a     *)
(* text is encrypted with the stored public key, the token is decrypted    *)
(* with the stored private key.                                            *)
(***************************************************************************)
\* at most this many key pairs are generated in a run of SpecRsa
MaxKeyPairs == 1

\* texts of up to this many full chunks, and one byte more
MaxChunks == 2

\* the 1000 ASCII bytes of the chunking example
LONG_SPEC == 1000

\* the key sizes the key generation dialog offers
KeySizeChoices == {2048, 3072, 4096}

\* what the user types into the passphrase entry of the dialog
RsaEntries == {<<>>, <<"p", "w", " ">>}

\* the passphrase argument of the decryption
RsaPassphrases == {None, Some(<<"p", "w">>)}

AsciiText(n) == [i \in 1..n |-> B64Alphabet[((7 * i) % 64) + 1]]

\* a text of n bytes that ends with the three bytes of a euro sign
WideText(n) == AsciiText(n - 3) \o <<"euro">>

TextSizes ==
    {0, 1}
    \cup {oaep_max_plaintext([id |-> 0, bits |-> MIN_KEY_SIZE]) + d : d \in {0, 1}}
    \cup {max_chunk_size * k + d : k \in 1..MaxChunks, d \in {0, 1}}
    \cup {LONG_SPEC}

\* the last character of the second wide text lies across the chunk boundary
Texts ==
    {AsciiText(n) : n \in TextSizes} \cup {WideText(n) : n \in {3, max_chunk_size + 1}}

PRIVATE_KEY_FILE == <<KEYS_DIR, "private_key.pem">>

PUBLIC_KEY_FILE == <<KEYS_DIR, "public_key.pem">>

\* both PEM texts written to the keys directory
SaveKeys(kf, private_key, public_key) ==
    [kf EXCEPT ![PRIVATE_KEY_FILE] = FileOf(private_key),
               ![PUBLIC_KEY_FILE] = FileOf(public_key)]

InitRsa ==
    /\ fmt = FmtIdle
    /\ keyfiles = NoKeyFiles
    /\ files = NoFiles
    /\ generated = 0
    /\ call = NoCall

\* the Generate button of the key generation dialog
on_generate(choice, entry, limit) ==
    /\ generated < limit
    /\ LET passphrase == strip(entry)
           pair == generate_rsa_key_pair(
                       IF passphrase # <<>> THEN Some(passphrase) ELSE None,
                       choice, generated + 1)
       IN keyfiles' = SaveKeys(keyfiles, pair[1].val, pair[2].val)
    /\ generated' = generated + 1
    /\ UNCHANGED <<fmt, files, call>>

\* encrypt_with_rsa_public_key(data)
RsaEncrypt(data) ==
    /\ call.op = "none"
    /\ call' = [op |-> "encrypt", data |-> data, store |-> keyfiles,
                token |-> encrypt_with_rsa_public_key(keyfiles, data, None)]
    /\ UNCHANGED <<fmt, keyfiles, files, generated>>

\* decrypt_with_rsa_private_key(token, passphrase=passphrase) on what the
\* encryption returned
RsaDecrypt(passphrase) ==
    /\ call.op = "encrypt"
    /\ call' = [op |-> "decrypt", data |-> call.data, enc_store |-> call.store,
                token |-> call.token, passphrase |-> passphrase, store |-> keyfiles,
                ret |-> decrypt_with_rsa_private_key(keyfiles, call.token, None,
                                                     passphrase)]
    /\ UNCHANGED <<fmt, keyfiles, files, generated>>

NextRsa ==
    \/ \E choice \in KeySizeChoices : \E entry \in RsaEntries :
          on_generate(choice, entry, MaxKeyPairs)
    \/ \E data \in Texts : RsaEncrypt(data)
    \/ \E passphrase \in RsaPassphrases : RsaDecrypt(passphrase)

SpecRsa == InitRsa /\ [][NextRsa]_vars

(***************************************************************************)
(* Claims about the chunked RSA text cipher (SpecRsa)                      *)
(***************************************************************************)
ByteLen(data) == Len(utf8_encode(data))

\* the public key the encryption read and the private key the decryption
\* read without a password belong to one key pair
MatchingUnencryptedPair(enc_store, dec_store) ==
    /\ enc_store[PUBLIC_KEY_FILE].exists
    /\ dec_store[PRIVATE_KEY_FILE].exists
    /\ LET pub == load_pem_public_key(enc_store[PUBLIC_KEY_FILE].data)
           priv == load_pem_private_key(dec_store[PRIVATE_KEY_FILE].data, None)
       IN pub.err = "" /\ priv.err = "" /\ pub.key = priv.key

\* the number of "|"-separated segments of a token
Segments(token) == IF token = <<>> THEN 0 ELSE Len(split(token, "|"))

CeilDiv(n, d) == (n + d - 1) \div d

\* C1: with a matching unencrypted key pair in the key store, decrypting
\* what the encryption of a text of 0 to 245 UTF-8 bytes returned gives
\* exactly that text.
C1_RoundTripUpTo245 ==
    (/\ call.op = "decrypt"
     /\ call.passphrase.none
     /\ MatchingUnencryptedPair(call.enc_store, call.store)
     /\ ByteLen(call.data) <= 245)
    => call.ret = Some(call.data)

\* C2: with a public key in the key store, the token the encryption of a
\* text of n bytes returns has exactly ceil(n/245) "|"-separated segments
\* (5 for n = 1000).
C2_SegmentCount ==
    (/\ call.op = "encrypt"
     /\ call.store[PUBLIC_KEY_FILE].exists
     /\ load_pem_public_key(call.store[PUBLIC_KEY_FILE].data).err = "")
    => /\ ~call.token.none
       /\ Segments(call.token.val) = CeilDiv(ByteLen(call.data), 245)

\* the chunks a token carries for the private key of the store, in token order
ChunksOfToken(token, store) ==
    LET key == load_pem_private_key(store[PRIVATE_KEY_FILE].data, None).key
        segments == split(token, "|")
    IN Tuple([k \in 1..Len(segments) |->
                private_key_decrypt(key, b64decode_bytes(segments[k]).bytes).bytes])

\* C3: for a text of more than 245 bytes the token carries the UTF-8 bytes
\* as contiguous chunks in order, all of 245 bytes but the last, which has at
\* most 245, and the decryption of the token returns the text exactly.
C3_ChunksAndRoundTrip ==
    (/\ call.op = "decrypt"
     /\ call.passphrase.none
     /\ MatchingUnencryptedPair(call.enc_store, call.store)
     /\ ByteLen(call.data) > 245)
    => /\ ~call.token.none
       /\ LET chunks == ChunksOfToken(call.token.val, call.store)
          IN /\ join(<<>>, chunks) = utf8_encode(call.data)
             /\ \A k \in 1..Len(chunks) :
                   /\ Len(chunks[k]) <= 245
                   /\ k < Len(chunks) => Len(chunks[k]) = 245
       /\ call.ret = Some(call.data)

(***************************************************************************)
(* SpecPass: the menu generates key pairs whose private key is encrypted   *)
(* with the passphrase as typed, a short text is encrypted, and the token  *)
(* is decrypted with a passphrase the caller supplies.                     *)
(***************************************************************************)
\* at most this many key pairs are generated in a run of SpecPass
MaxPassKeyPairs == 2

\* key_size=2048 of generate_rsa_key_pair
DEFAULT_KEY_SIZE == 2048

MY_PASS == <<"M", "y", " ", "P", "a", "s", "s">>

MY_PASS_TRAILING == MY_PASS \o <<" ">>

MY_PASS_PADDED == <<" ">> \o MY_PASS \o <<" ">>

MYPASS == <<"M", "y", "P", "a", "s", "s">>

OTHER_PASS == <<"m", "y", "p", "a", "s", "s">>

\* what the user types at the passphrase prompt of the menu
PassEntries == {<<>>, MY_PASS, MY_PASS_TRAILING, MYPASS}

\* the passphrase argument of the decryption
PassSupplied ==
    {None} \cup {Some(p) : p \in {MY_PASS, MY_PASS_TRAILING, MY_PASS_PADDED, MYPASS,
                                  OTHER_PASS}}

PassTexts == {<<"h", "i">>, <<"e_acute">>}

\* option 3 of the menu: generate a key pair and, on request, save it
main_option_3(use_passphrase, entry, save_choice, limit) ==
    /\ generated < limit
    /\ LET passphrase ==
               IF use_passphrase /\ strip(entry) # <<>> THEN Some(entry) ELSE None
           pair == generate_rsa_key_pair(passphrase, DEFAULT_KEY_SIZE, generated + 1)
       IN keyfiles' = IF save_choice THEN SaveKeys(keyfiles, pair[1].val, pair[2].val)
                      ELSE keyfiles
    /\ generated' = generated + 1
    /\ UNCHANGED <<fmt, files, call>>

NextPass ==
    \/ \E use_passphrase \in BOOLEAN : \E entry \in PassEntries :
          \E save_choice \in BOOLEAN :
             main_option_3(use_passphrase, entry, save_choice, MaxPassKeyPairs)
    \/ \E data \in PassTexts : RsaEncrypt(data)
    \/ \E passphrase \in PassSupplied : RsaDecrypt(passphrase)

SpecPass == InitRsa /\ [][NextPass]_vars

(***************************************************************************)
(* Claims about the passphrase retry (SpecPass)                            *)
(***************************************************************************)
\* what the private key file of a store holds
StoredPrivate(store) == ParseDer(PemParse(store[PRIVATE_KEY_FILE].data).der)

\* the private key file of the store is encrypted with passphrase q
EncryptedWith(store, q) ==
    /\ store[PRIVATE_KEY_FILE].exists
    /\ StoredPrivate(store).ok
    /\ StoredPrivate(store).kind = "encrypted"
    /\ StoredPrivate(store).password = utf8_encode(q)

\* a token was made with the public key of the pair whose private key the
\* decryption read
DecryptedOwnToken ==
    /\ call.op = "decrypt"
    /\ ~call.token.none
    /\ call.enc_store[PUBLIC_KEY_FILE].exists
    /\ call.store[PRIVATE_KEY_FILE].exists
    /\ StoredPrivate(call.store).ok
    /\ load_pem_public_key(call.enc_store[PUBLIC_KEY_FILE].data).key
         = StoredPrivate(call.store).key

\* C7 as stated: a key encrypted with "My Pass " (trailing space) loads when
\* the caller supplies that passphrase, "My Pass" or "MyPass", and the
\* decryption returns None for every other passphrase supplied.
C7_TrailingSpaceKeyLoads ==
    (/\ DecryptedOwnToken
     /\ EncryptedWith(call.store, MY_PASS_TRAILING)
     /\ Truthy(call.passphrase))
    => IF call.passphrase.val \in {MY_PASS_TRAILING, MY_PASS, MYPASS}
         THEN call.ret = Some(call.data)
       ELSE call.ret = None

\* C7: a key encrypted with passphrase q loads exactly when q is the
\* passphrase supplied, the passphrase supplied stripped, or the passphrase
\* supplied with its spaces removed: a key encrypted with "My Pass" loads for
\* "My Pass " and " My Pass ", a key encrypted with "MyPass" loads for
\* "My Pass", a key encrypted with "My Pass " loads for neither "My Pass" nor
\* "MyPass"; when no form of the passphrase supplied is q, None is returned.
C7_LoadsWhenAFormOfSuppliedMatches ==
    \A q \in {MY_PASS, MY_PASS_TRAILING, MYPASS} :
        (/\ DecryptedOwnToken
         /\ EncryptedWith(call.store, q)
         /\ Truthy(call.passphrase))
        => LET p == call.passphrase.val
               loads == \/ q = p
                        \/ q = strip(p)
                        \/ q = SelectSeq(p, LAMBDA c : c # " ")
           IN /\ loads => call.ret = Some(call.data)
              /\ ~loads => call.ret = None
              /\ (q = MY_PASS /\ p \in {MY_PASS_TRAILING, MY_PASS_PADDED})
                    => call.ret = Some(call.data)
              /\ (q = MYPASS /\ p \in {MY_PASS, MY_PASS_TRAILING, MY_PASS_PADDED})
                    => call.ret = Some(call.data)
              /\ (q = MY_PASS_TRAILING /\ p \in {MY_PASS, MYPASS}) => call.ret = None

\* C7 witness: a key encrypted with "My Pass" was loaded by the stripped form
\* of the passphrase supplied, " My Pass ", and the text came back
C7_Witness ==
    /\ DecryptedOwnToken
    /\ EncryptedWith(call.store, MY_PASS)
    /\ call.passphrase = Some(MY_PASS_PADDED)
    /\ call.ret = Some(call.data)

(***************************************************************************)
(* SpecFernet: a file is encrypted, and what the encryption returned is    *)
(* decrypted, with the key and the token as returned or changed.           *)
(***************************************************************************)
\* files of up to this many bytes
MaxFileLen == 4

FileContents == {Filler(n, 3) : n \in 0..MaxFileLen} \cup {<<255, 0, 10>>}

\* what the file at OUT_OLD holds before the decryption
OLD_CONTENT == Filler(2, 9)

\* the ways the caller passes on a key or a token: as returned, with a line
\* break added, with the last bit of its last data character changed, with
\* an early or a late character changed, cut short; and a freshly generated
\* key in place of the returned one
KeyWays == {"returned", "fresh", "line_break", "last_bit", "early", "cut"}

TokenWays == {"returned", "line_break", "last_bit", "early", "late", "cut"}

\* the next character of the URL-safe alphabet
NextChar(c) ==
    IF c \notin {urlsafe(B64Alphabet[i]) : i \in 1..64} THEN "A"
    ELSE urlsafe(B64Alphabet[((B64Value[standard(c)] + 1) % 64) + 1])

LastDataPos(t) == CHOOSE i \in 1..Len(t) : t[i] # B64Pad /\ \A j \in (i + 1)..Len(t) : t[j] = B64Pad

PassedOn(t, way, fresh) ==
    CASE way = "returned" -> t
      [] way = "fresh" -> fresh
      [] way = "line_break" -> t \o <<"\n">>
      [] way = "last_bit" -> [t EXCEPT ![LastDataPos(t)] = NextChar(@)]
      [] way = "early" -> [t EXCEPT ![2] = NextChar(@)]
      [] way = "late" -> [t EXCEPT ![LastDataPos(t) - 2] = NextChar(@)]
      [] way = "cut" -> Prefix(t, Len(t) - 4)

OutputFilenames == {None, Some(OUT_NEW), Some(OUT_OLD)}

InitFernet ==
    /\ fmt = FmtIdle
    /\ keyfiles = NoKeyFiles
    /\ \E b \in FileContents :
          files = [NoFiles EXCEPT ![INPUT_FILE] = FileOf(b),
                                  ![OUT_OLD] = FileOf(OLD_CONTENT)]
    /\ generated = 0
    /\ call = NoCall

\* encrypt_file_with_fernet(file_path)
FernetEncrypt(file_path) ==
    /\ call.op = "none"
    /\ call' = [op |-> "fernet_encrypt", file_path |-> file_path,
                ret |-> encrypt_file_with_fernet(files, file_path, generated + 1)]
    /\ generated' = IF files[file_path].exists THEN generated + 1 ELSE generated
    /\ UNCHANGED <<fmt, keyfiles, files>>

\* decrypt_file_with_fernet(encrypted_data, key, output_filename) on what the
\* encryption returned, passed on in one of the ways
FernetDecrypt(key_way, token_way, output_filename) ==
    /\ call.op = "fernet_encrypt"
    /\ LET encrypted_data ==
               IF call.ret[1].none THEN None
               ELSE Some(PassedOn(call.ret[1].val, token_way, <<>>))
           key == IF call.ret[2].none THEN None
                  ELSE Some(PassedOn(call.ret[2].val, key_way,
                                     fernet_generate_key(generated + 1)))
       IN With(decrypt_file_with_fernet(files, encrypted_data, key, output_filename),
               LAMBDA done :
                  /\ call' = [op |-> "fernet_decrypt", file_path |-> call.file_path,
                              encrypted |-> call.ret, encrypted_data |-> encrypted_data,
                              key |-> key, output_filename |-> output_filename,
                              before |-> files, ret |-> done.ret]
                  /\ files' = done.files)
    /\ generated' = IF key_way = "fresh" /\ ~call.ret[2].none THEN generated + 1
                    ELSE generated
    /\ UNCHANGED <<fmt, keyfiles>>

NextFernet ==
    \/ \E file_path \in {INPUT_FILE, OUT_NEW} : FernetEncrypt(file_path)
    \/ \E key_way \in KeyWays : \E output_filename \in OutputFilenames :
          FernetDecrypt(key_way, "returned", output_filename)
    \/ \E token_way \in TokenWays : \E output_filename \in OutputFilenames :
          FernetDecrypt("returned", token_way, output_filename)

SpecFernet == InitFernet /\ [][NextFernet]_vars

(***************************************************************************)
(* Claims about the Fernet file cipher (SpecFernet)                        *)
(***************************************************************************)
\* the decryption of what an encryption of an existing file returned
DecryptedEncryptedFile ==
    /\ call.op = "fernet_decrypt"
    /\ ~call.encrypted[1].none
    /\ ~call.encrypted[2].none

\* C4: encrypting a file of content b and decrypting with the returned
\* token, the returned key and an explicit output path returns True and
\* leaves exactly b at that path.
C4_FileRoundTrip ==
    (/\ DecryptedEncryptedFile
     /\ call.encrypted_data = call.encrypted[1]
     /\ call.key = call.encrypted[2]
     /\ ~call.output_filename.none)
    => /\ call.ret = TRUE
       /\ files[call.output_filename.val] = FileOf(call.before[call.file_path].data)

\* C4 witness: a file of MaxFileLen bytes came back at the path where
\* another file was
C4_Witness ==
    /\ DecryptedEncryptedFile
    /\ call.encrypted_data = call.encrypted[1]
    /\ call.key = call.encrypted[2]
    /\ call.output_filename = Some(OUT_OLD)
    /\ Len(call.before[INPUT_FILE].data) = MaxFileLen
    /\ call.ret = TRUE
    /\ files[OUT_OLD].data = call.before[INPUT_FILE].data
    /\ files[OUT_OLD].data # OLD_CONTENT

\* C5 as stated: with a key text other than the returned one, or a token
\* text other than the returned one, the decryption returns False and leaves
\* every file as it was.
C5_AnyChangeFails ==
    (/\ DecryptedEncryptedFile
     /\ \/ call.key # call.encrypted[2]
        \/ call.encrypted_data # call.encrypted[1])
    => /\ call.ret = FALSE
       /\ files = call.before

\* the two texts are base64 of the same bytes
SameBytes(t, u) ==
    /\ urlsafe_b64decode(t).ok
    /\ urlsafe_b64decode(u).ok
    /\ urlsafe_b64decode(t).bytes = urlsafe_b64decode(u).bytes

\* C5: with a key that decodes to other bytes than the returned key, or a
\* token that decodes to other bytes than the returned token, the decryption
\* returns False and leaves every file as it was; and whenever the
\* decryption returns True, it has written the content of the encrypted file
\* and nothing else.
C5_ChangedBytesFail ==
    DecryptedEncryptedFile
    => /\ (\/ ~SameBytes(call.key.val, call.encrypted[2].val)
           \/ ~SameBytes(call.encrypted_data.val, call.encrypted[1].val))
          => (call.ret = FALSE /\ files = call.before)
       /\ call.ret = TRUE
          => /\ ~call.output_filename.none
             /\ files = [call.before EXCEPT ![call.output_filename.val] =
                             FileOf(call.before[call.file_path].data)]

\* C5 witness: a decryption with a freshly generated key and an explicit
\* output path returned False and wrote nothing
C5_Witness ==
    /\ DecryptedEncryptedFile
    /\ call.key = Some(fernet_generate_key(generated))
    /\ call.key # call.encrypted[2]
    /\ call.encrypted_data = call.encrypted[1]
    /\ call.output_filename = Some(OUT_NEW)
    /\ call.ret = FALSE
    /\ ~files[OUT_NEW].exists

(***************************************************************************)
(* SpecKeys: key files appear in the working directory (the tests write    *)
(* them there) and in the keys directory (the menu saves them there),      *)
(* external keys are imported, the stored keys are retrieved.              *)
(***************************************************************************)
\* at most this many key pairs are generated in a run of SpecKeys
MaxStoreKeyPairs == 1

\* the key pair of an external tool
EXTERNAL_KEY == [id |-> 9, bits |-> 4096]

EXTERNAL_PASS == <<"p", "w">>

\* the private key text pasted into the import
ExternalPrivate ==
    { <<>>,
      <<" ">>,
      <<"A", "A", "A", "A">>,
      pem_serialize(PRIVATE_KEY, PrivateDer(EXTERNAL_KEY)),
      b64encode(PrivateDer(EXTERNAL_KEY)),
      pem_serialize(ENCRYPTED_PRIVATE_KEY,
                    EncryptedDer(EXTERNAL_KEY, utf8_encode(EXTERNAL_PASS))) }

\* the public key text pasted into the import
ExternalPublic ==
    { <<>>,
      <<"A", "A", "A", "A">>,
      pem_serialize(PUBLIC_KEY, PublicDer(EXTERNAL_KEY)) }

ImportPassphrases == {None, Some(EXTERNAL_PASS)}

\* the set-up of the tests: a generated key pair written to private_key.pem
\* and public_key.pem of the working directory
TestWritesKeys ==
    /\ generated < MaxStoreKeyPairs
    /\ LET pair == generate_rsa_key_pair(None, DEFAULT_KEY_SIZE, generated + 1)
       IN keyfiles' = [keyfiles EXCEPT
                          ![<<CWD, "private_key.pem">>] = FileOf(pair[1].val),
                          ![<<CWD, "public_key.pem">>] = FileOf(pair[2].val)]
    /\ generated' = generated + 1
    /\ UNCHANGED <<fmt, files, call>>

\* the key files that cannot be written: none, or one that the user has
\* made read-only
UnwritableChoices == {{}} \cup {{p} : p \in {KEYS_DIR} \X KeyFileNames}

\* import_external_rsa_keys(private, public, passphrase)
ImportExternalRsaKeys(private, public, passphrase, unwritable) ==
    /\ call.op = "none"
    /\ \A p \in unwritable : keyfiles[p].exists
    /\ With(import_external_rsa_keys(keyfiles, Some(private), Some(public), passphrase,
                                     unwritable),
            LAMBDA done :
               /\ call' = [op |-> "import", private |-> private, public |-> public,
                           passphrase |-> passphrase, unwritable |-> unwritable,
                           store |-> keyfiles,
                           after |-> done.keyfiles, ret |-> done.ret]
               /\ keyfiles' = done.keyfiles)
    /\ UNCHANGED <<fmt, files, generated>>

\* retrieve_rsa_keys()
RetrieveRsaKeys ==
    /\ call.op \in {"none", "import"}
    /\ call' = [op |-> "retrieve", store |-> keyfiles, ret |-> retrieve_rsa_keys(keyfiles)]
    /\ UNCHANGED <<fmt, keyfiles, files, generated>>

NextKeys ==
    \/ TestWritesKeys
    \/ \E save_choice \in BOOLEAN : main_option_3(FALSE, <<>>, save_choice, MaxStoreKeyPairs)
    \/ \E private \in ExternalPrivate : \E public \in ExternalPublic :
          \E passphrase \in ImportPassphrases : \E unwritable \in UnwritableChoices :
             ImportExternalRsaKeys(private, public, passphrase, unwritable)
    \/ RetrieveRsaKeys

SpecKeys == InitRsa /\ [][NextKeys]_vars

(***************************************************************************)
(* Claims about the key store (SpecKeys)                                   *)
(***************************************************************************)
\* retrieve_rsa_keys and import_external_rsa_keys work on the two key files
\* of directory dir
KeyStoreIs(dir) ==
    /\ call.op = "retrieve"
       => IF /\ call.store[<<dir, "private_key.pem">>].exists
             /\ call.store[<<dir, "public_key.pem">>].exists
            THEN /\ call.ret.shape = "tuple"
                 /\ call.ret.ok
                 /\ call.ret.private = Some(call.store[<<dir, "private_key.pem">>].data)
                 /\ call.ret.public = Some(call.store[<<dir, "public_key.pem">>].data)
          ELSE ~call.ret.ok
    /\ (call.op = "import" /\ call.ret.ok)
       => /\ call.after[<<dir, "private_key.pem">>] = FileOf(call.ret.private.val)
          /\ call.after[<<dir, "public_key.pem">>] = FileOf(call.ret.public.val)

DictKeys(d) == {d[i][1] : i \in 1..Len(d)}

DictGet(d, k) == d[CHOOSE i \in 1..Len(d) : d[i][1] = k][2]

\* d[k] = v: a key that is there keeps its place, a new key comes last
dict_set(d, k, v) ==
    IF k \in DictKeys(d)
      THEN Tuple([i \in 1..Len(d) |-> IF d[i][1] = k THEN <<k, v>> ELSE d[i]])
    ELSE Append(d, <<k, v>>)

RECURSIVE dict_update(_, _)
\* existing_data.update(data)
dict_update(d, data) ==
    IF data = <<>> THEN d
    ELSE dict_update(dict_set(d, data[1][1], data[1][2]), Tail(data))

\* json.dump(existing_data, file, indent=4): the members in the order of the dict
json_dump(d) == [kind |-> "object", members |-> d]

\* json.load(file): [err, kind, value]; of a member that occurs twice in the
\* text the last value is kept
json_load(doc) ==
    IF doc.kind = "object"
      THEN [err |-> "", kind |-> "dict", value |-> dict_update(<<>>, doc.members)]
    ELSE IF doc.kind = "array" THEN [err |-> "", kind |-> "list", value |-> <<>>]
    ELSE [err |-> "JSONDecodeError", kind |-> "none", value |-> <<>>]

\* a file that is no JSON text
CORRUPT_JSON == [kind |-> "corrupt", members |-> <<>>]

\* open_file(file_path): [err, kind, value]
open_file(fs, file_path) ==
    IF ~fs[file_path].exists
      THEN [err |-> "FileNotFoundError", kind |-> "none", value |-> <<>>]
    ELSE json_load(fs[file_path].data)

\* write_file that starts from an empty dict whatever the file holds
write_file_without_merge(fs, file_path, data) ==
    [err |-> "", files |-> [fs EXCEPT ![file_path] = FileOf(json_dump(data))]]

\* write_file(file_path, data): [err, files], the exception that reaches the
\* caller ("" when none) and the files afterwards
write_file(fs, file_path, data) ==
    With(open_file(fs, file_path), LAMBDA opened :
       IF fs[file_path].exists /\ opened.err = "" /\ opened.kind # "dict"
         THEN [err |-> "AttributeError", files |-> fs]
       ELSE
       With(IF fs[file_path].exists /\ opened.err = "" THEN opened.value ELSE <<>>,
            LAMBDA existing_data :
               [err |-> "",
                files |-> [fs EXCEPT
                    ![file_path] = FileOf(json_dump(dict_update(existing_data, data)))]]))

(***************************************************************************)
(* SpecWrite: mappings are written to one store file, one after the other. *)
(***************************************************************************)
\* at most this many write_file calls in a run of SpecWrite
MaxWrites == 3

\* at most this many entries in a written mapping
MaxEntries == 2

STORE_FILE == <<CWD, "encrypted_data.json">>

StoreKeys == {"k1", "k2"}

StoreValues == {"v1", "v2", "v3"}

\* the mappings written: no entry, one entry, or entries for several keys
\* in either order
StoreMappings ==
    { d \in UNION {[1..n -> StoreKeys \X StoreValues] : n \in 0..MaxEntries} :
         \A i, j \in 1..Len(d) : i # j => d[i][1] # d[j][1] }

\* the store file is absent, or holds what is no JSON
InitWrite ==
    /\ fmt = FmtIdle
    /\ keyfiles = NoKeyFiles
    /\ \E f \in {NoFile, FileOf(CORRUPT_JSON)} : files = [p \in {STORE_FILE} |-> f]
    /\ generated = 0
    /\ call = [op |-> "none", count |-> 0, written |-> [k \in StoreKeys |-> None]]

\* write_file(STORE_FILE, data); written is, for every key, the value of the
\* last call that named it
WriteFile(data) ==
    /\ call.count < MaxWrites
    /\ With(write_file(files, STORE_FILE, data), LAMBDA done :
          /\ call' = [op |-> "write_file", count |-> call.count + 1, data |-> data,
                      raised |-> done.err,
                      written |-> [k \in StoreKeys |->
                                      IF k \in DictKeys(data) THEN Some(DictGet(data, k))
                                      ELSE call.written[k]]]
          /\ files' = done.files)
    /\ UNCHANGED <<fmt, keyfiles, generated>>

NextWrite == \E data \in StoreMappings : WriteFile(data)

SpecWrite == InitWrite /\ [][NextWrite]_vars

(***************************************************************************)
(* Claims about write_file (SpecWrite)                                     *)
(***************************************************************************)
\* C11: after any sequence of write_file calls on the store file the file
\* holds the merge of the written mappings in call order: it is a JSON
\* object in which every key ever written has the value of the last call
\* that named it, and in which no other key occurs.
C11_FileIsMergeOfWrites ==
    call.op = "write_file"
    => /\ call.raised = ""
       /\ open_file(files, STORE_FILE).err = ""
       /\ open_file(files, STORE_FILE).kind = "dict"
       /\ \A k \in StoreKeys :
             IF call.written[k].none
               THEN k \notin DictKeys(open_file(files, STORE_FILE).value)
             ELSE /\ k \in DictKeys(open_file(files, STORE_FILE).value)
                  /\ DictGet(open_file(files, STORE_FILE).value, k) = call.written[k].val

\* C11 witness: k1 and k2 were written, then k1 was written again with
\* another value, and the file holds the new value of k1 beside k2
C11_Witness ==
    /\ call.op = "write_file"
    /\ call.count = 3
    /\ call.data = << <<"k1", "v3">> >>
    /\ files[STORE_FILE].data.members = << <<"k1", "v3">>, <<"k2", "v2">> >>

(***************************************************************************)
(* The store of encrypted values (encrypt_data_not_binary,                 *)
(* decrypt_data_not_binary).  An argument that may be of several Python    *)
(* types is a record [type, val, num, items]: the text of a str, the       *)
(* number of an int, the items of a list; the val of a bytes value is      *)
(* written as the text its ASCII bytes spell.                              *)
(***************************************************************************)
PyStr(s) == [type |-> "str", val |-> s, num |-> 0, items |-> <<>>]

PyBytes(b) == [type |-> "bytes", val |-> b, num |-> 0, items |-> <<>>]

PyInt(n) == [type |-> "int", val |-> <<>>, num |-> n, items |-> <<>>]

PyList(items) == [type |-> "list", val |-> <<>>, num |-> 0, items |-> items]

PyNone == [type |-> "NoneType", val |-> <<>>, num |-> 0, items |-> <<>>]

DecimalDigits == <<"0", "1", "2", "3", "4", "5", "6", "7", "8", "9">>

RECURSIVE Decimal(_)
\* the decimal digits of n >= 0
Decimal(n) ==
    IF n < 10 THEN <<DecimalDigits[n + 1]>>
    ELSE Append(Decimal(n \div 10), DecimalDigits[(n % 10) + 1])

\* repr(x) of a str without quotes or escapes, or of an int
py_repr(x) ==
    IF x.type = "str" THEN <<"'">> \o x.val \o <<"'">>
    ELSE IF x.num < 0 THEN <<"-">> \o Decimal(0 - x.num)
    ELSE Decimal(x.num)

RECURSIVE ReprItems(_)
ReprItems(items) ==
    IF items = <<>> THEN <<>>
    ELSE IF Len(items) = 1 THEN py_repr(items[1])
    ELSE py_repr(items[1]) \o <<",", " ">> \o ReprItems(Tail(items))

\* str(x) of a str, an int or a list of these
py_str(x) ==
    IF x.type = "str" THEN x.val
    ELSE IF x.type = "int" THEN py_repr(x)
    ELSE <<"[">> \o ReprItems(x.items) \o <<"]">>

\* isinstance(x, str | int | float)
IsScalar(x) == x.type \in {"str", "int", "float"}

RECURSIVE encrypt_words(_, _, _, _)
\* the loop over the words of a list: [err, mydict, key], key the last key
\* drawn, None when no word was reached; the first key drawn is the id-th
encrypt_words(words, id, mydict, key) ==
    IF words = <<>> THEN [err |-> "", mydict |-> mydict, key |-> key]
    ELSE IF words[1].type # "str"
      THEN [err |-> "AttributeError", mydict |-> mydict, key |-> key]
    ELSE With(fernet_generate_key(id), LAMBDA k :
            encrypt_words(Tail(words), id + 1,
                          dict_set(mydict, k,
                                   fernet_encrypt(Fernet(k), utf8_encode(words[1].val))),
                          Some(k)))

\* how many keys encrypt_data_not_binary(data) draws
KeysDrawn(data) ==
    IF data.type = "list"
      THEN Min({Len(data.items)} \cup {i - 1 : i \in {j \in 1..Len(data.items) :
                                                       data.items[j].type # "str"}})
    ELSE IF IsScalar(data) THEN 1
    ELSE 0

\* encrypt_data_not_binary(data), the first key drawn the id-th one:
\* [raised, ret, files], the exception that reaches the caller ("" when
\* none), the value returned and the files afterwards.  The value returned
\* is [shape, snapshot, key]: the pair (mydict, key), key a bytes value, or
\* the empty dict.
encrypt_data_not_binary(fs, data, id) ==
    LET nothing == [shape |-> "none", snapshot |-> <<>>, key |-> PyNone]
        empty == [shape |-> "dict", snapshot |-> <<>>, key |-> PyNone]
    IN IF data.type # "list" /\ ~IsScalar(data)
         THEN [raised |-> "", ret |-> empty, files |-> fs]
       ELSE
       With(encrypt_words(IF data.type = "list" THEN data.items ELSE <<PyStr(py_str(data))>>,
                          id, <<>>, None),
            LAMBDA r :
       IF r.err # "" THEN [raised |-> r.err, ret |-> nothing, files |-> fs]
       ELSE
       With(write_file(fs, STORE_FILE, r.mydict), LAMBDA w :
       IF w.err # "" THEN [raised |-> w.err, ret |-> nothing, files |-> w.files]
       ELSE IF r.key.none
         THEN [raised |-> "UnboundLocalError", ret |-> nothing, files |-> w.files]
       ELSE [raised |-> "",
             ret |-> [shape |-> "pair", snapshot |-> r.mydict, key |-> PyBytes(r.key.val)],
             files |-> w.files]))

\* decrypt_data_not_binary(orig, key): [raised, ret], ret a str or None
decrypt_data_not_binary(fs, orig, key) ==
    LET unmatched == [raised |-> "", ret |-> PyStr(<<>>)]
    IN With(open_file(fs, STORE_FILE), LAMBDA mydict :
       IF mydict.err # "" THEN [raised |-> mydict.err, ret |-> PyNone]
       ELSE IF ~IsScalar(orig) THEN [raised |-> "", ret |-> PyNone]
       ELSE IF mydict.kind # "dict" \/ key.type # "str" THEN unmatched
       ELSE IF key.val \notin DictKeys(mydict.value) THEN unmatched
       ELSE
       With(Fernet(key.val), LAMBDA fernet :
       IF fernet.err # "" THEN unmatched
       ELSE
       With(fernet_decrypt(fernet, DictGet(mydict.value, key.val)), LAMBDA decrypted_data :
       IF decrypted_data.err # "" THEN unmatched
       ELSE
       With(utf8_decode(decrypted_data.data), LAMBDA text :
       IF ~text.ok THEN unmatched
       ELSE [raised |-> "", ret |-> PyStr(text.text)]))))

(***************************************************************************)
(* SpecData: values are encrypted into the store and looked up again with  *)
(* the keys the encryptions returned or with a key of no entry.            *)
(***************************************************************************)
\* at most this many Fernet keys are drawn in a run of SpecData
MaxDataKeys == 3

WORD_A == PyStr(<<"h", "i">>)

WORD_B == PyStr(<<"e_acute">>)

\* the values encrypted
DataValues ==
    { WORD_A, PyStr(<<>>), PyInt(0 - 7), PyList(<<>>), PyList(<<WORD_A, WORD_B>>),
      PyList(<<PyInt(1)>>), PyNone }

\* a key that was never drawn
ABSENT_KEY == PyStr(fernet_generate_key(MaxDataKeys + 5))

\* how the caller passes on the key an encryption returned: as returned,
\* or decoded to text (key.decode())
DataKeyWays == {"returned", "decoded"}

InitData ==
    /\ fmt = FmtIdle
    /\ keyfiles = NoKeyFiles
    /\ \E f \in {NoFile, FileOf(CORRUPT_JSON)} : files = [p \in {STORE_FILE} |-> f]
    /\ generated = 0
    /\ call = [op |-> "none", issued |-> <<>>]

\* encrypt_data_not_binary(data); issued lists the values encrypted and the
\* keys returned for them
EncryptDataNotBinary(data) ==
    /\ generated + KeysDrawn(data) <= MaxDataKeys
    /\ With(encrypt_data_not_binary(files, data, generated + 1), LAMBDA done :
          /\ call' = [op |-> "encrypt_data", data |-> data, raised |-> done.raised,
                      ret |-> done.ret,
                      issued |-> IF done.ret.shape = "pair"
                                   THEN Append(call.issued,
                                               [value |-> data, key |-> done.ret.key])
                                 ELSE call.issued]
          /\ files' = done.files)
    /\ generated' = generated + KeysDrawn(data)
    /\ UNCHANGED <<fmt, keyfiles>>

\* decrypt_data_not_binary(orig, key)
DecryptDataNotBinary(orig, key, of) ==
    /\ With(decrypt_data_not_binary(files, orig, key), LAMBDA done :
          call' = [op |-> "decrypt_data", orig |-> orig, key |-> key, of |-> of,
                   raised |-> done.raised, ret |-> done.ret, issued |-> call.issued])
    /\ UNCHANGED <<fmt, keyfiles, files, generated>>

NextData ==
    \/ \E data \in DataValues : EncryptDataNotBinary(data)
    \/ \E i \in 1..Len(call.issued) : \E way \in DataKeyWays :
          DecryptDataNotBinary(call.issued[i].value,
                               IF way = "returned" THEN call.issued[i].key
                               ELSE PyStr(call.issued[i].key.val),
                               i)
    \/ \E orig \in {WORD_A, PyNone} : DecryptDataNotBinary(orig, ABSENT_KEY, 0)

SpecData == InitData /\ [][NextData]_vars

(***************************************************************************)
(* Claims about the store of encrypted values (SpecData)                   *)
(***************************************************************************)
\* C12 as stated: no exception reaches the caller of encrypt_data_not_binary
\* or of decrypt_data_not_binary; every failure is returned as a value.
C12_NoExceptionReachesCaller ==
    call.op \in {"encrypt_data", "decrypt_data"} => call.raised = ""

\* the text the entry of key k in dict d decrypts to under k
StoredText(d, k) == utf8_decode(fernet_decrypt(Fernet(k), DictGet(d, k)).data).text

\* C15 as stated: for every value, encrypt_data_not_binary returns a pair
\* (store_snapshot, key) whose key is a string under which the ciphertext of
\* str(value) is stored in store_snapshot and in the store file.
C15_ReturnsSnapshotAndStringKey ==
    call.op = "encrypt_data"
    => /\ call.raised = ""
       /\ call.ret.shape = "pair"
       /\ call.ret.key.type = "str"
       /\ call.ret.key.val \in DictKeys(call.ret.snapshot)
       /\ StoredText(call.ret.snapshot, call.ret.key.val) = py_str(call.data)
       /\ call.ret.key.val \in DictKeys(open_file(files, STORE_FILE).value)
       /\ DictGet(open_file(files, STORE_FILE).value, call.ret.key.val)
             = DictGet(call.ret.snapshot, call.ret.key.val)

\* key k is in the store file
InStore(k) ==
    /\ k.type = "str"
    /\ open_file(files, STORE_FILE).err = ""
    /\ k.val \in DictKeys(open_file(files, STORE_FILE).value)

\* C16 as stated: decrypt_data_not_binary with a key that is not in the
\* store file, also when there is no store file, raises nothing and returns
\* an empty result.
C16_AbsentKeyGivesEmptyResult ==
    (call.op = "decrypt_data" /\ ~InStore(call.key))
    => /\ call.raised = ""
       /\ call.ret \in {PyStr(<<>>), PyNone}

\* C17 as stated: decrypt_data_not_binary with the key that
\* encrypt_data_not_binary(v) returned, after any further encryptions into
\* the same store, returns str(v).
C17_ReturnedKeyDecryptsToValue ==
    (call.op = "decrypt_data" /\ call.of > 0 /\ call.key = call.issued[call.of].key)
    => /\ call.raised = ""
       /\ call.ret = PyStr(py_str(call.issued[call.of].value))

\* C13 as stated: import_external_rsa_keys returns a 3-tuple on every path,
\* (True, private_pem, public_pem) on success and (False, None, None) on
\* every failure, also when a key is empty or cannot be formatted.
C13_AlwaysReturnsTriple ==
    call.op = "import"
    => /\ call.ret.shape = "tuple"
       /\ IF call.ret.ok THEN ~call.ret.private.none /\ ~call.ret.public.none
          ELSE call.ret.private.none /\ call.ret.public.none

\* C14 as stated: an import replaces both key files or neither; when it
\* reports failure no key file of the key store has been modified, when it
\* reports success both hold the newly formatted keys.
C14_BothFilesOrNeither ==
    call.op = "import"
    => IF call.ret.ok
         THEN /\ call.after[PRIVATE_KEY_FILE] = FileOf(call.ret.private.val)
              /\ call.after[PUBLIC_KEY_FILE] = FileOf(call.ret.public.val)
       ELSE call.after = call.store

(***************************************************************************)
(* The RSA file cipher                                                     *)
(***************************************************************************)
\* the limit taken for kilobytes where the lengths compared are bytes
MAX_RSA_FILE_SIZE_in_kilobytes == 50000 \div 1000

\* the largest file encrypt_file_with_rsa takes, in bytes
MAX_RSA_FILE_SIZE == 50000

\* encrypt_file_with_rsa(file_path, public_key_path): (token, name), or
\* (None, None)
encrypt_file_with_rsa(fs, kf, file_path, public_key_path) ==
    IF ~fs[file_path].exists THEN <<None, None>>
    ELSE IF Len(fs[file_path].data) > MAX_RSA_FILE_SIZE THEN <<None, None>>
    ELSE With(encrypt_with_rsa_public_key(kf, b64encode(fs[file_path].data),
                                          public_key_path),
              LAMBDA encrypted_result :
                 IF encrypted_result.none THEN <<None, None>>
                 ELSE <<encrypted_result, Some(basename(file_path))>>)

\* decrypt_file_with_rsa(encrypted_data, output_filename, private_key_path,
\* passphrase): [ret, files].  Every exception ends in False: text that is
\* no base64 and, with no output_filename, os.time, which the os module
\* does not have (AttributeError).
decrypt_file_with_rsa(fs, kf, encrypted_data, output_filename, private_key_path, passphrase) ==
    LET failed == [ret |-> FALSE, files |-> fs]
    IN With(decrypt_with_rsa_private_key(kf, encrypted_data, private_key_path,
                                         passphrase),
            LAMBDA decrypted_b64 :
       IF ~Truthy(decrypted_b64) THEN failed
       ELSE IF \E i \in 1..Len(decrypted_b64.val) : decrypted_b64.val[i] \in NonAscii
         THEN failed
       ELSE
       With(b64decode(decrypted_b64.val), LAMBDA file_data :
       IF ~file_data.ok THEN failed
       ELSE IF ~Truthy(output_filename) THEN failed
       ELSE [ret |-> TRUE,
             files |-> open_wb_write(fs, output_filename.val, file_data.bytes)]))

(***************************************************************************)
(* SpecFiles: a file is encrypted with the Fernet or with the RSA file     *)
(* cipher and what the encryption returned is decrypted, with an output    *)
(* path or without one.                                                    *)
(***************************************************************************)
\* at most this many key pairs are generated in a run of SpecFiles
MaxFileKeyPairs == 1

\* encrypt_file_with_rsa(file_path)
FileRsaEncrypt(file_path) ==
    /\ call.op = "none"
    /\ call' = [op |-> "rsa_file_encrypt", file_path |-> file_path, store |-> keyfiles,
                ret |-> encrypt_file_with_rsa(files, keyfiles, file_path, None)]
    /\ UNCHANGED <<fmt, keyfiles, files, generated>>

\* decrypt_file_with_rsa(encrypted_data, output_filename, passphrase=passphrase)
\* on what the encryption returned
FileRsaDecrypt(output_filename, passphrase) ==
    /\ call.op = "rsa_file_encrypt"
    /\ With(decrypt_file_with_rsa(files, keyfiles, call.ret[1], output_filename, None,
                                  passphrase),
            LAMBDA done :
               /\ call' = [op |-> "rsa_file_decrypt", file_path |-> call.file_path,
                           encrypted_data |-> call.ret[1],
                           output_filename |-> output_filename,
                           passphrase |-> passphrase, store |-> keyfiles,
                           before |-> files, ret |-> done.ret]
               /\ files' = done.files)
    /\ UNCHANGED <<fmt, keyfiles, generated>>

NextFiles ==
    \/ \E choice \in KeySizeChoices : \E entry \in RsaEntries :
          /\ call.op = "none"
          /\ on_generate(choice, entry, MaxFileKeyPairs)
    \/ \E file_path \in {INPUT_FILE, OUT_NEW} : FernetEncrypt(file_path)
    \/ \E output_filename \in OutputFilenames :
          FernetDecrypt("returned", "returned", output_filename)
    \/ \E file_path \in {INPUT_FILE, OUT_NEW} : FileRsaEncrypt(file_path)
    \/ \E output_filename \in OutputFilenames : \E passphrase \in RsaPassphrases :
          FileRsaDecrypt(output_filename, passphrase)

SpecFiles == InitFernet /\ [][NextFiles]_vars

(***************************************************************************)
(* Claims about the file ciphers (SpecFiles)                               *)
(***************************************************************************)
\* the decryption just made had a token and a key that decrypt: the same
\* call with an output path returns True
ValidTokenAndKey ==
    \/ /\ call.op = "fernet_decrypt"
       /\ decrypt_file_with_fernet(call.before, call.encrypted_data, call.key,
                                   Some(OUT_NEW)).ret
    \/ /\ call.op = "rsa_file_decrypt"
       /\ decrypt_file_with_rsa(call.before, call.store, call.encrypted_data,
                                Some(OUT_NEW), None, call.passphrase).ret

\* C18 as stated: decrypt_file_with_fernet and decrypt_file_with_rsa, called
\* with a valid token and key but no output filename, write the decrypted
\* bytes to a file they name themselves and return True.
C18_NamesOutputFileItself ==
    (ValidTokenAndKey /\ call.output_filename = None)
    => /\ call.ret
       /\ files # call.before

(***************************************************************************)
(* SpecGen: key pairs are generated with the passphrases and the key sizes *)
(* a caller can hand over.                                                 *)
(***************************************************************************)
\* at most this many key pairs are generated in a run of SpecGen
MaxGenKeyPairs == 2

\* passphrase: none, the empty one, plain, of spaces only, not ASCII, and
\* bytes, empty and not
GenPassphrases ==
    { None, Some(<<>>), Some(<<"p", "w">>), Some(<<" ">>), Some(<<"e_acute">>),
      PassBytes(<<>>), PassBytes(<<"p", "w">>) }

\* key_size: below the floor, the floor, above it
GenKeySizes == {0 - 1, 0, 512, 1024, 2047, 2048, 3072, 4096, 8192}

\* generate_rsa_key_pair(passphrase, key_size)
GenerateRsaKeyPair(passphrase, key_size) ==
    /\ generated < MaxGenKeyPairs
    /\ call' = [op |-> "generate", passphrase |-> passphrase, key_size |-> key_size,
                ret |-> generate_rsa_key_pair(passphrase, key_size, generated + 1)]
    /\ generated' = generated + 1
    /\ UNCHANGED <<fmt, keyfiles, files>>

NextGen ==
    \E passphrase \in GenPassphrases : \E key_size \in GenKeySizes :
       GenerateRsaKeyPair(passphrase, key_size)

SpecGen == InitRsa /\ [][NextGen]_vars

(***************************************************************************)
(* Claims about generate_rsa_key_pair (SpecGen)                            *)
(***************************************************************************)
\* C19: generate_rsa_key_pair returns (private_pem, public_pem, passphrase).
\* With a non-empty passphrase the private PEM is an ENCRYPTED PRIVATE KEY
\* block, which that passphrase opens, and the third element is the
\* passphrase given; with no passphrase or an empty one the private PEM is a
\* PRIVATE KEY block, which loads without password; the public PEM is a
\* PUBLIC KEY block; a str passphrase never fails, and after a failure the
\* result is (None, None, None).
C19_GeneratedTriple ==
    call.op = "generate"
    => /\ (~Truthy(call.passphrase) \/ ~IsBytes(call.passphrase)) => ~call.ret[1].none
       /\ IF call.ret[1].none \/ call.ret[2].none
            THEN call.ret = <<None, None, None>>
          ELSE /\ PemParse(call.ret[2].val).ok
               /\ PemParse(call.ret[2].val).label = PUBLIC_KEY
               /\ load_pem_public_key(call.ret[2].val).err = ""
               /\ PemParse(call.ret[1].val).ok
               /\ IF Truthy(call.passphrase)
                    THEN /\ PemParse(call.ret[1].val).label = ENCRYPTED_PRIVATE_KEY
                         /\ call.ret[3] = call.passphrase
                         /\ load_pem_private_key(
                                call.ret[1].val,
                                Some(utf8_encode(call.passphrase.val))).err = ""
                  ELSE /\ PemParse(call.ret[1].val).label = PRIVATE_KEY
                       /\ load_pem_private_key(call.ret[1].val, None).err = ""

\* C19 witness: a key pair generated with the passphrase "pw" came back with
\* an ENCRYPTED PRIVATE KEY block and the passphrase
C19_Witness ==
    /\ call.op = "generate"
    /\ call.passphrase = Some(<<"p", "w">>)
    /\ ~call.ret[1].none
    /\ PemParse(call.ret[1].val).label = ENCRYPTED_PRIVATE_KEY
    /\ call.ret[3] = Some(<<"p", "w">>)

\* the modulus size in a private key PEM
StoredBits(private_pem) == ParseDer(PemParse(private_pem).der).key.bits

\* the modulus size of the public key the last generation returned
GeneratedBits == load_pem_public_key(call.ret[2].val).key.bits

\* C20: the key generate_rsa_key_pair returns has a modulus of 2048 bits
\* when fewer than 2048 were asked for, and of key_size bits when 2048 or
\* more were asked for.
C20_KeySizeFloor ==
    (call.op = "generate" /\ ~call.ret[2].none)
    => /\ load_pem_public_key(call.ret[2].val).err = ""
       /\ GeneratedBits = IF call.key_size < 2048 THEN 2048 ELSE call.key_size
       /\ StoredBits(call.ret[1].val) = GeneratedBits

\* C20 witness: 1024 bits were asked for and the key has 2048
C20_Witness ==
    /\ call.op = "generate"
    /\ call.key_size = 1024
    /\ ~call.ret[2].none
    /\ GeneratedBits = 2048

(***************************************************************************)
(* SpecBigFiles: files up to and beyond the size limit of the RSA file     *)
(* cipher are encrypted with the key pair of the key store.                *)
(***************************************************************************)
\* at most this many key pairs are generated in a run of SpecBigFiles
MaxBigKeyPairs == 1

\* the key store in which a key pair of the given size was generated earlier
StoreWithKeyPair(key_size) ==
    With(generate_rsa_key_pair(None, key_size, 1),
         LAMBDA pair : SaveKeys(NoKeyFiles, pair[1].val, pair[2].val))

\* the files encrypted: small ones, one of the largest size taken and one
\* that is one byte larger
BigFileContents ==
    FileContents \cup {Tuple(Filler(n, 5)) : n \in {MAX_RSA_FILE_SIZE, MAX_RSA_FILE_SIZE + 1}}

InitBigFiles ==
    /\ fmt = FmtIdle
    /\ keyfiles \in {NoKeyFiles, StoreWithKeyPair(3072)}
    /\ \E b \in BigFileContents : files = [NoFiles EXCEPT ![INPUT_FILE] = FileOf(b)]
    /\ generated = 0
    /\ call = NoCall

NextBigFiles ==
    \/ \E choice \in KeySizeChoices : on_generate(choice, <<>>, MaxBigKeyPairs)
    \/ \E file_path \in {INPUT_FILE, OUT_NEW} : FileRsaEncrypt(file_path)

SpecBigFiles == InitBigFiles /\ [][NextBigFiles]_vars

(***************************************************************************)
(* Claims about the size limit of the RSA file cipher (SpecBigFiles)       *)
(***************************************************************************)
\* C21: encrypt_file_with_rsa returns (None, None) for every file of more
\* than 50,000 bytes, whatever the chunked RSA cipher would make of it, and
\* for every file of 50,000 bytes or fewer returns what the chunked RSA
\* cipher makes of the base64 text of the file: its token with the name of
\* the file, or (None, None) when the cipher returns None.
C21_SizeLimit ==
    (call.op = "rsa_file_encrypt" /\ files[call.file_path].exists)
    => IF Len(files[call.file_path].data) > 50000 THEN call.ret = <<None, None>>
       ELSE With(encrypt_with_rsa_public_key(call.store,
                                             b64encode(files[call.file_path].data), None),
                 LAMBDA token :
                    IF token.none THEN call.ret = <<None, None>>
                    ELSE call.ret = <<token, Some(basename(call.file_path))>>)

\* C21 witness: a file of 50,001 bytes was rejected although the key store
\* holds a public key of 3072 bits or more, with which the chunked cipher
\* encrypts chunks of 245 bytes
C21_Witness ==
    /\ call.op = "rsa_file_encrypt"
    /\ files[call.file_path].exists
    /\ Len(files[call.file_path].data) = 50001
    /\ call.ret = <<None, None>>
    /\ call.store[PUBLIC_KEY_FILE].exists
    /\ load_pem_public_key(call.store[PUBLIC_KEY_FILE].data).key.bits >= 3072

(***************************************************************************)
(* SpecChunks: key pairs are generated without a passphrase, a text is     *)
(* encrypted, and its token is decrypted as it is or after its chunks were *)
(* reordered, dropped or damaged on the way.                               *)
(***************************************************************************)
\* at most this many key pairs are generated in a run of SpecChunks
MaxChunkKeyPairs == 2

\* texts of no bytes, of one byte, and of up to MaxChunks full chunks and
\* one byte more; the last character of the wide text lies across the
\* boundary of the first chunk
ChunkTexts ==
    {AsciiText(n) : n \in {0, 1} \cup {max_chunk_size * k + d : k \in 1..MaxChunks, d \in {0, 1}}}
    \cup {WideText(max_chunk_size + 1)}

\* what happens to the chunks of a token on the way
OrderWays == {"as given", "reversed", "first dropped", "last dropped"}

\* damage to the last chunk: its last character lost (no base64 any more),
\* or the first byte of its ciphertext lost (base64 that does not decrypt)
DamageWays == {"last cut", "last truncated"}

ChunkWays == OrderWays \cup DamageWays

\* the chunks in the order and number the way leaves them
Rearrange(parts, way) ==
    CASE way = "reversed" -> Tuple([k \in 1..Len(parts) |-> parts[Len(parts) + 1 - k]])
      [] way = "first dropped" -> Tail_from(parts, 2)
      [] way = "last dropped" -> Prefix(parts, Len(parts) - 1)
      [] OTHER -> parts

\* the segments of a token with the last one damaged
Damage(segments, way) ==
    CASE way = "last cut" ->
           [segments EXCEPT ![Len(segments)] = Prefix(@, Len(@) - 1)]
      [] way = "last truncated" ->
           [segments EXCEPT ![Len(segments)] =
               b64encode(Tail_from(b64decode_bytes(@).bytes, 2))]
      [] OTHER -> segments

\* the token that arrives
Arriving(token, way) ==
    join(<<"|">>, Damage(Rearrange(split(token, "|"), way), way))

\* decrypt_with_rsa_private_key(token) on the token of the encryption as it
\* arrives
ChunkDecrypt(way) ==
    /\ call.op = "encrypt"
    /\ ~call.token.none
    /\ call' = [op |-> "decrypt_chunks", data |-> call.data, enc_store |-> call.store,
                way |-> way, store |-> keyfiles,
                token |-> Some(Arriving(call.token.val, way)),
                ret |-> decrypt_with_rsa_private_key(
                            keyfiles, Some(Arriving(call.token.val, way)), None, None)]
    /\ UNCHANGED <<fmt, keyfiles, files, generated>>

NextChunks ==
    \/ \E choice \in KeySizeChoices : on_generate(choice, <<>>, MaxChunkKeyPairs)
    \/ \E data \in ChunkTexts : RsaEncrypt(data)
    \/ \E way \in ChunkWays : ChunkDecrypt(way)

SpecChunks == InitRsa /\ [][NextChunks]_vars

(***************************************************************************)
(* Claims about failing and rearranged chunks (SpecChunks)                 *)
(***************************************************************************)
\* the UTF-8 bytes of the text in the chunks the encryption cuts them into
PlainChunks(data) == chunks_of(utf8_encode(data))

\* the key pair that encrypted is the one that decrypts
SamePair == MatchingUnencryptedPair(call.enc_store, call.store)

\* C22: encrypt_with_rsa_public_key returns None when there is no public key
\* file or a chunk is longer than RSA-OAEP takes with the key, and otherwise
\* a token with one segment for every chunk; decrypt_with_rsa_private_key
\* returns None when the last chunk of a token is no base64 or does not
\* decrypt, or when the token was made for another key, and whatever it
\* returns is the text of all the chunks of the token, never of the chunks
\* before a failure.
C22_NoPartialOutput ==
    /\ call.op = "encrypt"
       => IF ~call.store[PUBLIC_KEY_FILE].exists THEN call.token.none
          ELSE With(load_pem_public_key(call.store[PUBLIC_KEY_FILE].data).key, LAMBDA key :
                  IF \E k \in 1..Len(PlainChunks(call.data)) :
                        Len(PlainChunks(call.data)[k]) > key.bits \div 8 - 66
                    THEN call.token.none
                  ELSE /\ ~call.token.none
                       /\ Segments(call.token.val) = Len(PlainChunks(call.data)))
    /\ call.op = "decrypt_chunks"
       => /\ (call.way \in DamageWays \/ ~SamePair) => call.ret.none
          /\ ~call.ret.none
             => utf8_encode(call.ret.val)
                   = join(<<>>, Rearrange(PlainChunks(call.data), call.way))

\* C22 witness: a token of two or more chunks whose last chunk lost a
\* character was decrypted with the key pair that made it, the chunks before
\* the last are intact, and None was returned
C22_Witness ==
    /\ call.op = "decrypt_chunks"
    /\ call.way = "last cut"
    /\ SamePair
    /\ Len(PlainChunks(call.data)) >= 2
    /\ call.ret.none

\* C26, restated: with the key pair that made the token, a token whose
\* chunks were reversed or that lost its first or its last chunk, and that
\* still has a chunk, is decrypted to the text of its chunks in the order
\* given whenever their bytes are valid UTF-8.
C26_RearrangedTokenAccepted ==
    (/\ call.op = "decrypt_chunks"
     /\ call.way \in {"reversed", "first dropped", "last dropped"}
     /\ SamePair
     /\ Rearrange(PlainChunks(call.data), call.way) # <<>>)
    => With(utf8_decode(join(<<>>, Rearrange(PlainChunks(call.data), call.way))),
            LAMBDA given : given.ok => call.ret = Some(given.text))

\* C26 witness: a token of two or more chunks was reversed and decrypted to
\* a text that is not the text encrypted
C26_Witness ==
    /\ call.op = "decrypt_chunks"
    /\ call.way = "reversed"
    /\ SamePair
    /\ Len(PlainChunks(call.data)) >= 2
    /\ ~call.ret.none
    /\ call.ret # Some(call.data)

\* C26 as stated: a token whose chunks were reordered or dropped, whatever
\* is left of it, is decrypted to the text of its chunks in the order given
\* whenever their bytes are valid UTF-8.
C26_AnyRearrangedTokenAccepted ==
    (/\ call.op = "decrypt_chunks"
     /\ call.way \in {"reversed", "first dropped", "last dropped"}
     /\ SamePair)
    => With(utf8_decode(join(<<>>, Rearrange(PlainChunks(call.data), call.way))),
            LAMBDA given : given.ok => call.ret = Some(given.text))

(***************************************************************************)
(* Claims about the passphrase of an unencrypted key (SpecRsa)             *)
(***************************************************************************)
\* C25 as stated: with an unencrypted private key in the key store,
\* decrypt_with_rsa_private_key returns the text of a token made with the
\* public key of the pair whether or not the caller supplies a passphrase.
C25_PassphraseIgnoredForUnencryptedKey ==
    (/\ call.op = "decrypt"
     /\ MatchingUnencryptedPair(call.enc_store, call.store)
     /\ ~call.token.none
     /\ call.token.val # <<>>)
    => call.ret = Some(call.data)

(***************************************************************************)
(* SpecRace: two processes call write_file on the same store file.  A call *)
(* is three steps: the file is read (main.py 42-48), it is opened for      *)
(* writing, which empties it (main.py 53), and the merged mapping is       *)
(* written from the start of the file when the file is closed (main.py     *)
(* 54).  A text written over a longer one leaves the end of the longer one *)
(* behind it.                                                              *)
(***************************************************************************)
\* at most this many write_file calls of each process in a run of SpecRace
MaxRaceWrites == 1

RaceProcs == {1, 2}

\* the key a process writes
RaceKey(p) == IF p = 1 THEN "k1" ELSE "k2"

\* the mappings a process writes: one entry under its key
RaceData(p) == {<<<<RaceKey(p), v>>>> : v \in {"v1", "v2"}}

\* the entry the store file holds before the processes start
OLD_ENTRIES == <<<<"k0", "v0">>>>

\* a file opened with "w" and not yet written: empty, no JSON text
EMPTY_TEXT == [kind |-> "empty", members |-> <<>>]

\* the number of characters json.dump(d, indent=4) writes for keys and
\* values of two characters: "{}", or an opening and a closing line and a
\* line of 14 characters for every entry, the lines separated by ",\n"
JsonTextLen(doc) ==
    IF doc.kind = "empty" THEN 0
    ELSE IF doc.members = <<>> THEN 2
    ELSE 2 + 14 * Len(doc.members) + 2 * (Len(doc.members) - 1) + 2

\* the file after text is written from its start
Overwritten(before, text) ==
    IF before.exists /\ JsonTextLen(before.data) > JsonTextLen(text)
      THEN FileOf(CORRUPT_JSON)
    ELSE FileOf(text)

InitRace ==
    /\ fmt = FmtIdle
    /\ keyfiles = NoKeyFiles
    /\ \E f \in {NoFile, FileOf(json_dump(OLD_ENTRIES))} : files = [p \in {STORE_FILE} |-> f]
    /\ generated = 0
    /\ call = [op |-> "none", proc |-> 0,
               pc |-> [p \in RaceProcs |-> "idle"],
               count |-> [p \in RaceProcs |-> 0],
               data |-> [p \in RaceProcs |-> <<>>],
               existing_data |-> [p \in RaceProcs |-> <<>>],
               before |-> NoFile]

\* write_file(STORE_FILE, data) of process p up to the merge: the file is
\* read, or an empty dict taken when it is absent or cannot be read
ReadStep(p, data) ==
    /\ call.pc[p] = "idle"
    /\ call.count[p] < MaxRaceWrites
    /\ With(open_file(files, STORE_FILE), LAMBDA opened :
          call' = [call EXCEPT !.op = "read", !.proc = p, !.pc[p] = "read",
                               !.data[p] = data,
                               !.existing_data[p] =
                                   IF opened.err = "" /\ opened.kind = "dict"
                                     THEN opened.value ELSE <<>>,
                               !.before = files[STORE_FILE]])
    /\ UNCHANGED <<fmt, keyfiles, files, generated>>

\* existing_data.update(data) and open(file_path, "w") of process p
OpenStep(p) ==
    /\ call.pc[p] = "read"
    /\ call' = [call EXCEPT !.op = "open", !.proc = p, !.pc[p] = "open",
                            !.existing_data[p] = dict_update(@, call.data[p]),
                            !.before = files[STORE_FILE]]
    /\ files' = [files EXCEPT ![STORE_FILE] = FileOf(EMPTY_TEXT)]
    /\ UNCHANGED <<fmt, keyfiles, generated>>

\* the write that merges the mapping into what the file holds by then
DumpStep_into_current_file(p) ==
    /\ call.pc[p] = "open"
    /\ call' = [call EXCEPT !.op = "dump", !.proc = p, !.pc[p] = "idle",
                            !.count[p] = @ + 1,
                            !.before = files[STORE_FILE]]
    /\ files' = [files EXCEPT ![STORE_FILE] =
                    IF @.data.kind = "object"
                      THEN FileOf(json_dump(dict_update(@.data.members,
                                                        call.existing_data[p])))
                    ELSE FileOf(json_dump(call.existing_data[p]))]
    /\ UNCHANGED <<fmt, keyfiles, generated>>

\* json.dump(existing_data, file, indent=4) and the closing of the file of
\* process p: the call returns
DumpStep(p) ==
    /\ call.pc[p] = "open"
    /\ call' = [call EXCEPT !.op = "dump", !.proc = p, !.pc[p] = "idle",
                            !.count[p] = @ + 1,
                            !.before = files[STORE_FILE]]
    /\ files' = [files EXCEPT ![STORE_FILE] =
                    Overwritten(@, json_dump(call.existing_data[p]))]
    /\ UNCHANGED <<fmt, keyfiles, generated>>

NextRace ==
    \/ \E p \in RaceProcs : \E data \in RaceData(p) : ReadStep(p, data)
    \/ \E p \in RaceProcs : OpenStep(p)
    \/ \E p \in RaceProcs : DumpStep(p)

SpecRace == InitRace /\ [][NextRace]_vars

(***************************************************************************)
(* Claims about concurrent write_file calls (SpecRace)                     *)
(***************************************************************************)
\* the other process
Other(p) == IF p = 1 THEN 2 ELSE 1

\* the entry the process wrote with its call is in the store file
EntryInFile(p) ==
    /\ open_file(files, STORE_FILE).err = ""
    /\ call.data[p][1][1] \in DictKeys(open_file(files, STORE_FILE).value)
    /\ DictGet(open_file(files, STORE_FILE).value, call.data[p][1][1]) = call.data[p][1][2]

\* C23: when a write_file call returns, the store file holds what the
\* process read at the start of its call, merged with what it wrote, and no
\* more: the entry of the other process, whose call has returned, is in the
\* file only if it was in the file when this process read it; and when the
\* other process wrote a longer text in between, the file is no JSON at all.
C23_LostUpdate ==
    (call.op = "dump" /\ call.count[Other(call.proc)] >= 1)
    => /\ EntryInFile(Other(call.proc))
          => call.data[Other(call.proc)][1] \in
                {call.existing_data[call.proc][i] :
                    i \in 1..Len(call.existing_data[call.proc])}
       /\ files[STORE_FILE].data \in {json_dump(call.existing_data[call.proc]), CORRUPT_JSON}
       /\ files[STORE_FILE].data = CORRUPT_JSON
          <=> JsonTextLen(call.before.data) > JsonTextLen(json_dump(call.existing_data[call.proc]))

\* C23 witness: both calls have returned, the file is a JSON object with
\* the entry of the process that wrote last, and the entry of the other
\* process is not in it
C23_Witness ==
    /\ call.op = "dump"
    /\ call.count[1] >= 1
    /\ call.count[2] >= 1
    /\ EntryInFile(call.proc)
    /\ ~EntryInFile(Other(call.proc))
    /\ call.data[Other(call.proc)][1][1] \notin DictKeys(open_file(files, STORE_FILE).value)

(***************************************************************************)
(* Claims about what an import stores (SpecKeys)                           *)
(***************************************************************************)
\* the private key loads with the passphrase supplied, or it is an
\* encrypted key and no passphrase was supplied
LoadsOrAwaitsPassphrase(private_pem, passphrase) ==
    IF Truthy(passphrase)
      THEN load_pem_private_key(private_pem, Some(utf8_encode(passphrase.val))).err = ""
    ELSE \/ load_pem_private_key(private_pem, None).err = ""
         \/ \E password \in {utf8_encode(EXTERNAL_PASS)} :
               load_pem_private_key(private_pem, Some(password)).err = ""

\* C24 as stated: import_external_rsa_keys reports success, and writes the
\* private key file, only if the formatted public key loads and the
\* formatted private key loads with the passphrase supplied or is an
\* encrypted key for which none was supplied; a private key that the loader
\* rejects as malformed is never stored.
C24_MalformedKeyNeverStored ==
    (/\ call.op = "import"
     /\ call.ret.ok \/ call.after[PRIVATE_KEY_FILE] # call.store[PRIVATE_KEY_FILE])
    => /\ call.after[PUBLIC_KEY_FILE].exists
       /\ load_pem_public_key(call.after[PUBLIC_KEY_FILE].data).err = ""
       /\ call.after[PRIVATE_KEY_FILE].exists
       /\ LoadsOrAwaitsPassphrase(call.after[PRIVATE_KEY_FILE].data, call.passphrase)

(***************************************************************************)
(* SpecPayload: format_rsa_key applied once to texts with header and       *)
(* footer literals in any order, repeated and nested, to payloads that are *)
(* no base64, and to keys with a PBES OID at one place or another.         *)
(***************************************************************************)
\* the eight literals format_rsa_key removes
Literals == {Begin(l) : l \in PemLabels} \cup {End(l) : l \in PemLabels}

\* the base64 of an empty SEQUENCE
KEY_BODY == <<"M", "A", "A", "=">>

\* the outer literal with the inner one set into it after its ninth character
Nested(outer, inner) == Prefix(outer, 9) \o inner \o Tail_from(outer, 10)

\* literals alone, in front of a payload, repeated, nested in each other,
\* broken by a line break; whitespace alone and inside a payload
LiteralTexts ==
    {<<>>, <<" ", "\n", "\t", "\r">>,
     SP \o <<"M", "A">> \o <<"\r", "\n", "\t">> \o <<"A", "=">>}
    \cup Literals
    \cup {L \o KEY_BODY : L \in Literals}
    \cup {L \o L \o KEY_BODY \o L : L \in Literals}
    \cup {Nested(outer, inner) \o KEY_BODY : outer \in Literals, inner \in Literals}
    \cup {Prefix(L, 10) \o LF \o Tail_from(L, 11) \o KEY_BODY : L \in Literals}

\* texts base64.b64decode does not take: the number of characters is no
\* multiple of four, or a character is not ASCII; some are longer than the
\* 1500 characters of the length heuristic, one has exactly that length
UndecodableTexts ==
    {Tuple(AsciiText(n)) : n \in {1, 2, 1498, 1499, 1501, 1502}}
    \cup {Tuple(AsciiText(n) \o <<"e_acute">>) : n \in {3, 1499, 1500}}

\* a SEQUENCE of 110 content bytes in which the OID starts after the given
\* number of content bytes: it ends with byte 100 of the buffer when 86
\* bytes precede it
OidAt(offset, oid) ==
    <<SEQUENCE_TAG, 129, 110>> \o Filler(offset, 3) \o oid
        \o Filler(110 - offset - Len(oid), 5)

\* keys with an OID at the start, at the end and just past the end of the
\* first 100 bytes, an OID in the bytes that follow the SEQUENCE, and an OID
\* in a buffer that is no SEQUENCE
OidTexts ==
    {b64encode(OidAt(offset, oid)) : offset \in {0, 86, 87}, oid \in OidChoices}
    \cup {b64encode(<<tag, 2, 1, 2>> \o oid) : tag \in {SEQUENCE_TAG, 49},
                                               oid \in {PBES2_OID, PBES1_OID}}

PayloadInputs == LiteralTexts \cup UndecodableTexts \cup OidTexts

InitPayload ==
    /\ \E key_type \in KeyTypes : \E key_content \in PayloadInputs :
          fmt = [key_type |-> key_type, key_content |-> key_content, outs |-> <<>>]
    /\ keyfiles = NoKeyFiles
    /\ files = NoFiles
    /\ generated = 0
    /\ call = NoCall

NextPayload == FormatFirst

SpecPayload == InitPayload /\ [][NextPayload]_vars

(***************************************************************************)
(* Claims about the payload and the lines of the PEM block (SpecPayload)   *)
(***************************************************************************)
\* format_rsa_key was called and returned a PEM block
Formatted == fmt.outs # <<>> /\ ~fmt.outs[1].none

\* the lines of the block: the text between its line breaks
OutLines == split(fmt.outs[1].val, "\n")

\* the lines between the first and the last
BodyLines == SubSeq(OutLines, 2, Len(OutLines) - 1)

\* what the body lines spell
BodyText == join(<<>>, BodyLines)

\* C27: the payload format_rsa_key's normalisation leaves holds no
\* whitespace and none of the eight BEGIN/END literals, whatever the order,
\* repetition or nesting of the literals in the input, and it is what the
\* block of a public key carries; when nothing is left of the input once
\* literals and whitespace are taken out, format_rsa_key returns None.
C27_PayloadClean ==
    fmt.outs # <<>>
    => /\ \A i \in 1..Len(normalise(fmt.key_content)) :
             normalise(fmt.key_content)[i] \notin {" ", "\n", "\t", "\r"}
       /\ \A L \in Literals : ~Contains(normalise(fmt.key_content), L)
       /\ SelectSeq(strip_headers(fmt.key_content), NotSpace) = <<>> => fmt.outs[1].none
       /\ (Formatted /\ fmt.key_type = "PUBLIC") => BodyText = normalise(fmt.key_content)

\* C27 witness: the END literal of a public key stood inside the BEGIN
\* literal; the END literal was removed, and what was left of the BEGIN
\* literal is in the payload without its spaces
C27_Witness ==
    /\ Formatted
    /\ fmt.key_type = "PUBLIC"
    /\ fmt.key_content = Nested(Begin(PUBLIC_KEY), End(PUBLIC_KEY)) \o KEY_BODY
    /\ BodyText = SelectSeq(Begin(PUBLIC_KEY), NotSpace) \o KEY_BODY

\* C28 as stated: when the normalised payload of a private key is no valid
\* base64, format_rsa_key returns None.
C28_InvalidBase64Fails ==
    (/\ fmt.outs # <<>>
     /\ fmt.key_type = "PRIVATE"
     /\ normalise(fmt.key_content) # <<>>
     /\ ~b64decode(normalise(fmt.key_content)).ok)
    => fmt.outs[1].none

\* the block is the header line, the payload in lines of 64 characters with
\* a last line of 1 to 64, and the footer line, LF between the lines
LinesOfBlock ==
    /\ Len(OutLines) >= 3
    /\ OutLines[1] \in {Begin(PUBLIC_KEY), Begin(PRIVATE_KEY), Begin(ENCRYPTED_PRIVATE_KEY)}
    /\ fmt.key_type = "PUBLIC" <=> OutLines[1] = Begin(PUBLIC_KEY)
    /\ \E l \in PemLabels : OutLines[1] = Begin(l) /\ OutLines[Len(OutLines)] = End(l)
    /\ \A k \in 1..Len(BodyLines) :
          IF k < Len(BodyLines) THEN Len(BodyLines[k]) = 64
          ELSE Len(BodyLines[k]) \in 1..64
    /\ BodyText = payload_of(fmt.key_content, fmt.key_type)

\* C29, restated: the block is the header line, the payload cut in order in
\* lines of exactly 64 characters but for a last line that may be shorter,
\* and the footer line; every line but the footer is followed by one LF,
\* the footer by nothing; the header and footer are PUBLIC KEY for a public
\* key and PRIVATE KEY or ENCRYPTED PRIVATE KEY for a private one; the body
\* lines joined are the payload.
C29_LinesOfBlock ==
    Formatted => LinesOfBlock /\ fmt.outs[1].val[Len(fmt.outs[1].val)] = "-"

\* C29 witness: a private key whose payload fills two lines of 64
\* characters and a shorter third
C29_Witness ==
    /\ Formatted
    /\ fmt.key_type = "PRIVATE"
    /\ Len(BodyLines) = 3
    /\ Len(BodyLines[3]) < 64

\* C29 as stated: the same block with every line, the footer too, followed
\* by an LF.
C29_EveryLineTerminated ==
    Formatted => LinesOfBlock /\ fmt.outs[1].val[Len(fmt.outs[1].val)] = "\n"

\* C30: the block of a private key has the ENCRYPTED PRIVATE KEY header and
\* footer exactly when the PBES2 or the PBES1 OID lies within the first 100
\* bytes its payload decodes to or, the payload not decoding, the payload is
\* longer than 1500 characters, and the PRIVATE KEY header and footer
\* otherwise; the payload is the same either way.
C30_HeaderOfPrivateKey ==
    (Formatted /\ fmt.key_type = "PRIVATE")
    => /\ With(b64decode(BodyText), LAMBDA decoded :
             (OutLines[1] = Begin(ENCRYPTED_PRIVATE_KEY))
             <=> IF decoded.ok
                   THEN \E oid \in {PBES2_OID, PBES1_OID} :
                           \E at \in 1..(100 - Len(oid) + 1) :
                              /\ at + Len(oid) - 1 <= Len(decoded.bytes)
                              /\ SubSeq(decoded.bytes, at, at + Len(oid) - 1) = oid
                 ELSE Len(BodyText) > 1500)
       /\ OutLines[1] \in {Begin(ENCRYPTED_PRIVATE_KEY), Begin(PRIVATE_KEY)}
       /\ OutLines[1] = Begin(ENCRYPTED_PRIVATE_KEY)
          <=> OutLines[Len(OutLines)] = End(ENCRYPTED_PRIVATE_KEY)
       /\ OutLines[1] = Begin(PRIVATE_KEY) <=> OutLines[Len(OutLines)] = End(PRIVATE_KEY)
       /\ BodyText = trim_extra_data(normalise(fmt.key_content))

\* C30 witness: the OID starts at byte 91 of the key, one byte too late to
\* lie within the first 100, and the block has the PRIVATE KEY header
C30_Witness ==
    /\ Formatted
    /\ fmt.key_type = "PRIVATE"
    /\ fmt.key_content = b64encode(OidAt(87, PBES2_OID))
    /\ OutLines[1] = Begin(PRIVATE_KEY)

====
